---- MODULE Spec2Model ----
(***************************************************************************)
(* A model of the edge dispatcher (src/src/index.ts, src/src/rules.ts):    *)
(* rule resolution against the KV store, rule matching and selection, the  *)
(* action executor with its event emission, the click-out handler, the     *)
(* postback endpoint and the event store.                                  *)
(*                                                                         *)
(* Strings the code takes apart are sequences of lexemes: "/" is a lexeme  *)
(* of its own and every other lexeme is a slash-free piece of text, so     *)
(* "/a/b/" is <<"/", "a", "/", "b", "/">> and "/s.css" is                  *)
(* <<"/", "s", ".css">>.  endsWith, slice, lastIndexOf and substring are   *)
(* computed on these sequences as the code computes them on characters.    *)
(***************************************************************************)
EXTENDS Integers, Sequences, FiniteSets, TLC

VARIABLES
    kv,          \* env.KV: stored key -> rule bundle
    events,      \* the events table of the event store
    tasks,       \* promises handed to executionCtx.waitUntil, not yet run
    last,        \* the request handled last and the response it got
    idSeq,       \* number of ids minted so far by generateUniqueId
    destinationUrlCache, \* the per-isolate Map destinationId -> cached lookup
    d1Rows,      \* the destinations table of the control database (env.DB)
    clockMs      \* Date.now(), in milliseconds since the isolate started

vars == <<kv, events, tasks, last, idSeq, destinationUrlCache, d1Rows, clockMs>>

\* JS null / undefined for a string-valued field.
NULL == "<null>"

\* ---------------------------------------------------------------- bounds

\* Longest request path, in lexemes, of the rule-resolution specification.
MaxPathLen == 6

\* ------------------------------------------------------- string helpers

\* p.endsWith('/')
EndsWithSlash(p) == Len(p) > 0 /\ p[Len(p)] = "/"

\* p.slice(0, -1), used by the code only where p ends with "/"
DropLast(p) == SubSeq(p, 1, Len(p) - 1)

\* p.lastIndexOf('/'), 1-based; 0 when p has no "/"
LastSlash(p) ==
    LET idx == {i \in 1..Len(p) : p[i] = "/"}
    IN  IF idx = {} THEN 0 ELSE CHOOSE i \in idx : \A j \in idx : j <= i

\* "Move to the parent directory": substring(0, lastSlash) when the last
\* slash is not the leading one, "/" otherwise.
ParentPath(p) ==
    IF LastSlash(p) > 1 THEN SubSeq(p, 1, LastSlash(p) - 1) ELSE <<"/">>

\* `${domain}${path}`: a host name is one lexeme.
KeyOf(domain, path) == <<domain>> \o path

\* -------------------------------------------------------------- KV store

\* env.KV.get(key): <<value>> when the key is stored, <<>> for null.
KVHas(store, key) == key \in DOMAIN store

\* A walk that tries only the exact key at every level, without the key
\* with the trailing slash toggled.
RECURSIVE WalkKVExactOnly(_, _, _)
WalkKVExactOnly(store, domain, currentPath) ==
    IF KVHas(store, KeyOf(domain, currentPath)) THEN <<KeyOf(domain, currentPath)>>
    ELSE IF currentPath = <<"/">> THEN <<>>
    ELSE WalkKVExactOnly(store, domain, ParentPath(currentPath))

\* The walk of getKVRule from currentPath up to "/": the key found, as
\* <<key>>, or <<>> when the loop breaks at the root without a hit.
RECURSIVE WalkKV(_, _, _)
WalkKV(store, domain, currentPath) ==
    LET keyWithPath == KeyOf(domain, currentPath)
        keyWithoutSlash == DropLast(keyWithPath)
        keyWithSlash == keyWithPath \o <<"/">>
    IN  IF KVHas(store, keyWithPath) THEN <<keyWithPath>>
        ELSE IF /\ EndsWithSlash(currentPath)
                /\ Len(currentPath) > 1
                /\ KVHas(store, keyWithoutSlash) THEN <<keyWithoutSlash>>
        ELSE IF /\ ~EndsWithSlash(currentPath)
                /\ currentPath # <<"/">>
                /\ KVHas(store, keyWithSlash) THEN <<keyWithSlash>>
        ELSE IF currentPath = <<"/">> THEN <<>>
        ELSE WalkKV(store, domain, ParentPath(currentPath))

\* A getKVRule whose root fallback forgets the "only for the root path" test.
GetKVKeyAnyPathFallback(store, domain, path) ==
    LET walked == WalkKV(store, domain, path)
    IN  IF walked # <<>> THEN walked
        ELSE IF KVHas(store, <<domain>>) THEN << <<domain>> >>
        ELSE <<>>

\* A getKVRule that tries only the exact key and its slash variant, and
\* then the root, without walking the levels in between.
GetKVKeyNoWalk(store, domain, path) ==
    LET exact == KeyOf(domain, path)
        toggled == IF EndsWithSlash(path) THEN DropLast(exact) ELSE exact \o <<"/">>
        rootKey == KeyOf(domain, <<"/">>)
    IN  IF KVHas(store, exact) THEN <<exact>>
        ELSE IF path # <<"/">> /\ KVHas(store, toggled) THEN <<toggled>>
        ELSE IF KVHas(store, rootKey) THEN <<rootKey>>
        ELSE IF path = <<"/">> /\ KVHas(store, <<domain>>) THEN << <<domain>> >>
        ELSE <<>>

\* getKVRule, the key it resolves: <<key>>, or <<>> when it returns null.
GetKVKey(store, domain, path) ==
    LET walked == WalkKV(store, domain, path)
    IN  IF walked # <<>> THEN walked
        ELSE IF path = <<"/">> /\ KVHas(store, <<domain>>) THEN << <<domain>> >>
        ELSE <<>>

\* ------------------------------------------- rule-resolution specification

\* Lexemes of the request paths the resolution specification draws from.
ResolveLexemes == {"/", "a", "b"}

\* Every request path of at most MaxPathLen lexemes (a URL pathname starts
\* with "/"; empty segments such as "//" are included).
ResolvePaths ==
    {p \in UNION {[1..n -> ResolveLexemes] : n \in 1..MaxPathLen} : p[1] = "/"}

\* The host of the requests; the KV also holds a key of another host.
ResolveHosts == {"h"}

\* Keys a campaign can be stored under: {host}{path} in canonical form, with
\* and without the trailing slash, and the legacy bare host.
ResolveKeys ==
    { <<"h">>, <<"h", "/">>,
      <<"h", "/", "a">>, <<"h", "/", "a", "/">>,
      <<"h", "/", "a", "/", "b">>, <<"h", "/", "a", "/", "b", "/">>,
      <<"h", "/", "b", "/", "a">>,
      <<"g", "/">> }

InitResolve ==
    /\ kv \in UNION {[ks -> {"bundle"}] : ks \in SUBSET ResolveKeys}
    /\ events = {}
    /\ tasks = {}
    /\ last = [kind |-> "none"]
    /\ idSeq = 0
    /\ destinationUrlCache = {}
    /\ d1Rows = {}
    /\ clockMs = 0

\* One call getKVRule(c, domain, path); the outcome is kept in last.
ResolveCall(domain, path) ==
    /\ last.kind = "none"
    /\ last' = [kind |-> "resolve", domain |-> domain, path |-> path,
                found |-> GetKVKey(kv, domain, path)]
    /\ UNCHANGED <<kv, events, tasks, idSeq, destinationUrlCache, d1Rows, clockMs>>

NextResolve == \E d \in ResolveHosts, p \in ResolvePaths : ResolveCall(d, p)

SpecResolve == InitResolve /\ [][NextResolve]_vars

\* body.split('/'): the pieces between single slashes, empty ones included.
RECURSIVE SplitSlash(_)
SplitSlash(body) ==
    LET stops == {i \in 1..Len(body) : body[i] = "/"}
        n == IF stops = {} THEN Len(body) + 1
             ELSE CHOOSE i \in stops : \A j \in stops : i <= j
    IN  IF stops = {} THEN <<body>>
        ELSE <<SubSeq(body, 1, n - 1)>> \o SplitSlash(SubSeq(body, n + 1, Len(body)))

\* The segments of a path: what lies between its slashes, after the leading
\* slash and without one trailing slash ("/" has none, "/a/b/" has a and b,
\* "//a" has an empty segment and a).
Segs(p) ==
    LET noLead == Tail(p)
        body == IF EndsWithSlash(noLead) THEN DropLast(noLead) ELSE noLead
    IN  IF body = <<>> THEN <<>> ELSE SplitSlash(body)

IsPrefix(s, t) == Len(s) <= Len(t) /\ SubSeq(t, 1, Len(s)) = s

\* The stored keys of a host whose path is a segment-wise prefix of the
\* request path; the bare host key counts for the request path "/" only.
PrefixKeys(store, domain, path) ==
    {k \in DOMAIN store :
        /\ k[1] = domain
        /\ IF Len(k) = 1 THEN path = <<"/">>
           ELSE IsPrefix(Segs(Tail(k)), Segs(path))}

Depth(k) == IF Len(k) = 1 THEN 0 ELSE Len(Segs(Tail(k)))

\* C1: getKVRule returns a stored key whose path is the longest segment-wise
\* prefix of the request path (at one level the exact form before the form
\* with the trailing slash toggled, and host/ before the bare host), and it
\* returns null only when no level of the walk has a stored key.
C1_LongestPrefix ==
    last.kind = "resolve" =>
        LET cands == PrefixKeys(kv, last.domain, last.path)
        IN  /\ (last.found = <<>>) <=> (cands = {})
            /\ last.found # <<>> =>
                 /\ last.found[1] \in cands
                 /\ \A c \in cands : Depth(c) <= Depth(last.found[1])
                 /\ KeyOf(last.domain, last.path) \in cands
                       => last.found[1] = KeyOf(last.domain, last.path)
                 /\ KeyOf(last.domain, <<"/">>) \in cands
                       => last.found[1] # <<last.domain>>

\* C1 witness: bundles at host/ and host/a/b, request /a/b/b resolved to
\* host/a/b.
C1_Witness ==
    /\ last.kind = "resolve"
    /\ last.domain = "h"
    /\ last.path = <<"/", "a", "/", "b", "/", "b">>
    /\ <<"h", "/">> \in DOMAIN kv
    /\ last.found = << <<"h", "/", "a", "/", "b">> >>

C2_WitnessRefused ==
    /\ last.kind = "resolve"
    /\ last.path # <<"/">>
    /\ <<last.domain>> \in DOMAIN kv
    /\ last.found = <<>>

\* ------------------------------------------------------------------ values

\* A string value of a query parameter, an id or a macro: literal text, or
\* `${prefix}-${uuid}` where n tells which UUID of the run it carries.
Lit(s) == [pfx |-> s, n |-> 0]

\* null, undefined and '' of an id-valued field.
NoId == Lit("")

\* A generateUniqueId whose UUID never changes.
GenerateUniqueIdRepeating(prefix, k) == [pfx |-> prefix, n |-> 0]

\* generateUniqueId(prefix): crypto.randomUUID() never repeats; the k-th UUID
\* drawn is told apart by k.
GenerateUniqueId(prefix, k) == [pfx |-> prefix, n |-> k]

\* A folder name or other text that does not start with http:// or https://.
Txt(s) == [http |-> FALSE, body |-> s, params |-> {}]

\* An absolute http(s) URL: what precedes the query string, and the query
\* string as a set of <<name, value>> pairs.
Url(origin, ps) == [http |-> TRUE, body |-> origin, params |-> ps]

\* '' (also what `x || ''` makes of an absent text field)
NoText == Txt("")

\* JS truthiness of a text: every string but '' is truthy.
Truthy(t) == t.http \/ t.body # ""

\* s.startsWith('http://') || s.startsWith('https://')
IsUrl(t) == t.http

\* { ...a, ...b }: the entries of b override those of a.
MergeQuery(a, b) == {p \in a : \A q \in b : q[1] # p[1]} \cup b

\* for (const [k, v] of Object.entries(q)) url.searchParams.set(k, v)
SetParams(u, q) == [u EXCEPT !.params = MergeQuery(@, q)]

\* url.searchParams.set(k, v)
SetParam(u, k, v) == SetParams(u, {<<k, v>>})

\* The macros of the model's URLs and the MacroContext field each reads
\* (populateMacros: addVariable('click.id', context?.clickId), ...).
MacroField ==
    [m \in {"{{click.id}}", "{{impression.id}}", "{{session.id}}"} |->
        CASE m = "{{click.id}}" -> "clickId"
          [] m = "{{impression.id}}" -> "impressionId"
          [] m = "{{session.id}}" -> "sessionId"]

\* replaceMacrosInUrl: each {{name}} known to populateMacros is replaced by
\* its value ('' for an undefined context field), other text is kept.
ReplaceMacrosInUrl(url, context) ==
    [url EXCEPT !.params =
        {<<p[1], IF p[2].n = 0 /\ p[2].pfx \in DOMAIN MacroField
                 THEN context[MacroField[p[2].pfx]] ELSE p[2]>> : p \in @}]

\* -------------------------------------------------------------- paths

\* The last lexeme of a path when it is a file extension (".css"), else "".
\* getPathExtension: the text after the last "." of the last segment.
GetPathExtension(p) ==
    LET l == p[Len(p)]
    IN  IF l \in {".css", ".js", ".png", ".html", ".htm", ".php"} THEN l ELSE ""

\* ASSET_EXTENSIONS, as far as the model's paths go.
ASSET_EXTENSIONS == {".css", ".js", ".png"}

\* p.endsWith('.html') || p.endsWith('.htm')
EndsWithHtml(p) == p[Len(p)] \in {".html", ".htm"}

IsPageLike(p) ==
    \/ p = <<"/">>
    \/ EndsWithHtml(p)
    \/ GetPathExtension(p) = ""
    \/ GetPathExtension(p) \notin ASSET_EXTENSIONS

\* The paths for which an impression is minted and stored: "/", a trailing
\* slash, .html or .htm.
IsTrackedPagePath(p) == p = <<"/">> \/ EndsWithSlash(p) \/ EndsWithHtml(p)

\* isClickOutPath
IsClickOutPath(p) ==
    LET normalized == IF EndsWithSlash(p) /\ Len(p) > 1 THEN DropLast(p) ELSE p
    IN  /\ Len(normalized) >= 2
        /\ normalized[Len(normalized) - 1] = "/"
        /\ normalized[Len(normalized)] = "click"

\* s.replace(/\/$/, '')
StripTrailingSlash(p) == IF EndsWithSlash(p) THEN DropLast(p) ELSE p

\* ---------------------------------------------------------------- bounds

\* Math.random() is drawn from {0, 1/RandDenom, ..., (RandDenom-1)/RandDenom}.
RandDenom == 2

\* The ids (UUIDs) one run may mint.
MaxIds == 3

\* ------------------------------------------------------- rule matching

\* Lower-casing of the model's country and device names (the 'i' flag).
Lower(s) ==
    CASE s = "US" -> "us" [] s = "CA" -> "ca"
      [] s = "Mobile" -> "mobile" [] s = "Desktop" -> "desktop"
      [] s = "Comcast" -> "comcast" [] s = "Hetzner" -> "hetzner"
      [] s = "Austin" -> "austin" [] s = "Ashburn" -> "ashburn"
      [] s = "Chrome" -> "chrome" [] s = "Mobile Safari" -> "mobile safari"
      [] s = "macOS" -> "macos" [] s = "iOS" -> "ios"
      [] s = "EN" -> "en" [] s = "FR" -> "fr"
      [] OTHER -> s

\* matchWildcard: null or '' never matches; "*" matches any text; a pattern
\* without "*" matches the same text, case-insensitively.
MatchWildcard(text, pattern) ==
    /\ text # ""
    /\ (pattern = "*" \/ Lower(text) = Lower(pattern))

\* ipToLong of a dotted quad, given as its four octets (the model's
\* addresses lie below 128.0.0.0).
IpToLong(ip) == ((ip[1] * 256 + ip[2]) * 256 + ip[3]) * 256 + ip[4]

\* isIpInRange: a range with "/" is a CIDR block (the shift count of << is
\* taken modulo 32), one with "-" a pair of bounds, one with "*" a prefix
\* followed by anything, any other an address.
IsIpInRange(ip, range) ==
    CASE range.kind = "cidr" ->
            LET shift == (32 - range.bits) % 32
                \* the bits the mask keeps; an address below 2^31 has none
                \* above a shift of 31
                Kept(long) == IF shift = 31 THEN 0 ELSE long \div 2^shift
            IN  Kept(IpToLong(ip)) = Kept(IpToLong(range.base))
      [] range.kind = "hyphen" ->
            /\ IpToLong(ip) >= IpToLong(range.start)
            /\ IpToLong(ip) <= IpToLong(range.end)
      [] range.kind = "wildcard" ->
            /\ Len(range.prefix) < 4
            /\ SubSeq(ip, 1, Len(range.prefix)) = range.prefix
      [] range.kind = "exact" -> ip = range.ip

\* A request without cf-connecting-ip.
NoIp == <<>>

\* A RuleFlags object without any predicate; an absent predicate is <<>>, a
\* present one is <<expected>> (a string counts as the array of itself).
NoFlags ==
    [params |-> <<>>, country |-> <<>>, region |-> <<>>, city |-> <<>>,
     continent |-> <<>>, asn |-> <<>>, colo |-> <<>>, ip |-> <<>>, org |-> <<>>,
     language |-> <<>>, time |-> <<>>, device |-> <<>>, browser |-> <<>>,
     os |-> <<>>, brand |-> <<>>]

\* acceptLang.split(',')[0].split('-')[0].toLowerCase(), the header given
\* as its tags, a tag as its subtags
PrimaryLang(acceptLang) == IF acceptLang = <<>> THEN "" ELSE Lower(acceptLang[1][1])

\* String.prototype.includes for the model's OS names (case-sensitive)
Includes(text, part) ==
    \/ part = text
    \/ <<text, part>> \in {<<"macOS", "mac">>, <<"macOS", "OS">>, <<"iOS", "OS">>}

\* hour * 60 + minute of a flags.time bound, given as Math.floor(t) and
\* Math.round((t - Math.floor(t)) * 60)
TimeInMinutes(t) == t.hour * 60 + t.minute

\* checkSingleRule whose params predicate is evaluated on asset requests
\* as on pages.
CheckSingleRuleParamsOnAssets(data, flags, isAssetRequest) ==
    /\ flags.params # <<>> => \A p \in flags.params[1] : p \in data.query
    /\ flags.country # <<>> => data.geo.country \in flags.country[1]
    /\ flags.region # <<>> => data.geo.regionCode \in flags.region[1]
    /\ flags.city # <<>> => data.geo.city \in flags.city[1]
    /\ flags.continent # <<>> => data.geo.continent \in flags.continent[1]
    /\ flags.asn # <<>> => data.cf.asn \in flags.asn[1]
    /\ flags.colo # <<>> => data.cf.colo \in flags.colo[1]
    /\ flags.ip # <<>> =>
          /\ data.ip # NoIp
          /\ \E r \in flags.ip[1] : IsIpInRange(data.ip, r)
    /\ flags.org # <<>> =>
          /\ data.org # ""
          /\ \E pat \in flags.org[1] : MatchWildcard(data.org, pat)
    /\ flags.language # <<>> =>
          PrimaryLang(data.headers.acceptLanguage) \in flags.language[1]
    /\ flags.time # <<>> =>
          /\ data.now >= TimeInMinutes(flags.time[1].start)
          /\ data.now < TimeInMinutes(flags.time[1].end)
    /\ flags.device # <<>> => data.userAgent.device \in flags.device[1]
    /\ flags.browser # <<>> => data.userAgent.browser \in flags.browser[1]
    /\ flags.os # <<>> =>
          /\ data.userAgent.os # ""
          /\ \E e \in flags.os[1] : Includes(data.userAgent.os, e)
    /\ flags.brand # <<>> => data.userAgent.brand \in flags.brand[1]

\* checkSingleRule: AND across the predicates present, OR within one; a
\* params predicate is false on an asset request.  data.now is the UTC
\* time of day in minutes that new Date() gives the call.
CheckSingleRule(data, flags, isAssetRequest) ==
    /\ flags.params # <<>> =>
          /\ ~isAssetRequest
          /\ \A p \in flags.params[1] : p \in data.query
    /\ flags.country # <<>> => data.geo.country \in flags.country[1]
    /\ flags.region # <<>> => data.geo.regionCode \in flags.region[1]
    /\ flags.city # <<>> => data.geo.city \in flags.city[1]
    /\ flags.continent # <<>> => data.geo.continent \in flags.continent[1]
    /\ flags.asn # <<>> => data.cf.asn \in flags.asn[1]
    /\ flags.colo # <<>> => data.cf.colo \in flags.colo[1]
    /\ flags.ip # <<>> =>
          /\ data.ip # NoIp
          /\ \E r \in flags.ip[1] : IsIpInRange(data.ip, r)
    /\ flags.org # <<>> =>
          /\ data.org # ""
          /\ \E pat \in flags.org[1] : MatchWildcard(data.org, pat)
    /\ flags.language # <<>> =>
          PrimaryLang(data.headers.acceptLanguage) \in flags.language[1]
    /\ flags.time # <<>> =>
          /\ data.now >= TimeInMinutes(flags.time[1].start)
          /\ data.now < TimeInMinutes(flags.time[1].end)
    /\ flags.device # <<>> => data.userAgent.device \in flags.device[1]
    /\ flags.browser # <<>> => data.userAgent.browser \in flags.browser[1]
    /\ flags.os # <<>> =>
          /\ data.userAgent.os # ""
          /\ \E e \in flags.os[1] : Includes(data.userAgent.os, e)
    /\ flags.brand # <<>> => data.userAgent.brand \in flags.brand[1]

\* A rule whose flags have to match as well when it has groups.
RuleMatchesFlagsAndGroups(data, ruleSet, isAssetRequest) ==
    /\ CheckSingleRule(data, ruleSet.flags, isAssetRequest)
    /\ Len(ruleSet.groups) > 0 =>
          \E i \in 1..Len(ruleSet.groups) :
             CheckSingleRule(data, ruleSet.groups[i], isAssetRequest)

\* One rule of a bundle matches: OR across its groups when it has groups,
\* its own flags otherwise.
RuleMatches(data, ruleSet, isAssetRequest) ==
    IF Len(ruleSet.groups) > 0
    THEN \E i \in 1..Len(ruleSet.groups) :
            CheckSingleRule(data, ruleSet.groups[i], isAssetRequest)
    ELSE CheckSingleRule(data, ruleSet.flags, isAssetRequest)

\* matchingRules, in the order of rule.rules
MatchingRules(data, rule, isAssetRequest) ==
    SelectSeq(rule.rules, LAMBDA rs : RuleMatches(data, rs, isAssetRequest))

\* clickMatchingRules: the matching rules that carry a click target.  An
\* array, even an empty one, is truthy.
ClickMatchingRules(data, rule, isAssetRequest) ==
    SelectSeq(rule.rules,
              LAMBDA rs : /\ RuleMatches(data, rs, isAssetRequest)
                          /\ (Truthy(rs.clickUrl) \/ rs.clickDestinations # <<>>))

\* ------------------------------------------------------ weighted choice

RECURSIVE SumSeq(_)
SumSeq(ws) == IF ws = <<>> THEN 0 ELSE Head(ws) + SumSeq(Tail(ws))

\* A selection whose test is random < currentWeight.
PickIndexStrict(ws, k) ==
    LET total == SumSeq(ws)
        hits == {i \in 1..Len(ws) :
                    k * total < SumSeq(SubSeq(ws, 1, i)) * RandDenom}
    IN  IF hits = {} THEN 0 ELSE CHOOSE i \in hits : \A j \in hits : i <= j

\* total = sum of the weights; random = Math.random() * total with
\* Math.random() = k / RandDenom; the first item whose running sum satisfies
\* random <= currentWeight, as an index; 0 when the loop picks none.
PickIndex(ws, k) ==
    LET total == SumSeq(ws)
        hits == {i \in 1..Len(ws) :
                    k * total <= SumSeq(SubSeq(ws, 1, i)) * RandDenom}
    IN  IF hits = {} THEN 0 ELSE CHOOSE i \in hits : \A j \in hits : i <= j

\* mr.rule.weight || 100
RuleWeights(rs) == [i \in 1..Len(rs) |-> IF rs[i].weight = 0 THEN 100 ELSE rs[i].weight]

\* d.weight || 1
DestWeights(ds) == [i \in 1..Len(ds) |-> IF ds[i].weight = 0 THEN 1 ELSE ds[i].weight]

\* ---------------------------------------------------- destination store

\* The destinations table of the control database (D1).
Destinations ==
    { [id |-> "off1", url |-> Url("https://offer.example/a", {<<"sub", Lit("{{click.id}}")>>}),
       status |-> "active", updated_at |-> 1],
      [id |-> "off2", url |-> Url("https://offer.example/b", {}),
       status |-> "paused", updated_at |-> 1] }

\* destinationUrlCache.set(id, entry)
CachePut(cache, entry) == {c \in cache : c.id # entry.id} \cup {entry}

\* getDestinationUrl.  recent: the cached entry is younger than 100 ms;
\* d1Ok: the queries to D1 succeed.  Yields the URL ('' for null) and the
\* cache after the call.
GetDestinationUrl(destinationId, cache, recent, d1Ok) ==
    LET cached == {c \in cache : c.id = destinationId}
        entry == CHOOSE c \in cached : TRUE
        current == {d \in d1Rows : d.id = destinationId}
        active == {d \in current : d.status = "active"}
        failed == [url |-> NoText,
                   cache |-> CachePut(cache, [id |-> destinationId, url |-> NoText,
                                              updatedAt |-> 0])]
        fetched ==
            IF active = {} THEN failed
            ELSE LET row == CHOOSE d \in active : TRUE
                 IN  [url |-> row.url,
                      cache |-> CachePut(cache, [id |-> destinationId, url |-> row.url,
                                                 updatedAt |-> row.updated_at])]
    IN  IF cached # {} /\ recent THEN [url |-> entry.url, cache |-> cache]
        ELSE IF ~d1Ok THEN failed
        ELSE IF /\ cached # {}
                /\ \E d \in current : d.updated_at = entry.updatedAt
             THEN [url |-> entry.url, cache |-> cache]
        ELSE fetched

\* ------------------------------------------------------------- bundles

\* resolveDefaultDestinations: collapses defaultDestinations / defaultOffers /
\* a lone destinationId into defaultFolder, defaultFolderMode and
\* destinationId of the parsed bundle.  Yields the bundle and the cache.
ResolveDefaultDestinations(rule, cache, env) ==
    LET lps == rule.defaultDestinations
        i == PickIndex(DestWeights(lps), env.rLP)
        selectedLP == IF i = 0 THEN lps[1] ELSE lps[i]
        withLP == [rule EXCEPT
                     !.defaultFolder = selectedLP.value,
                     !.defaultFolderMode =
                         IF selectedLP.mode # "" THEN selectedLP.mode
                         ELSE IF selectedLP.value.http THEN "proxy" ELSE "hosted"]
        offers == IF Len(lps) > 0 THEN selectedLP.offers ELSE rule.defaultOffers
        j == PickIndex(DestWeights(offers), env.rOffer)
        selectedOffer == IF j = 0 THEN offers[1] ELSE offers[j]
        offerUrl == GetDestinationUrl(selectedOffer.id, cache, env.recent, env.d1Ok)
        legacy == GetDestinationUrl(rule.destinationId, cache, env.recent, env.d1Ok)
    IN  IF Len(lps) > 0 THEN
            IF Len(selectedLP.offers) > 0
            THEN [rule |-> IF Truthy(offerUrl.url)
                           THEN [withLP EXCEPT !.destinationId = selectedOffer.id]
                           ELSE withLP,
                  cache |-> offerUrl.cache]
            ELSE [rule |-> withLP, cache |-> cache]
        ELSE IF Len(rule.defaultOffers) > 0 THEN
            [rule |-> IF Truthy(offerUrl.url)
                      THEN [rule EXCEPT !.defaultFolder = offerUrl.url,
                                        !.defaultFolderMode = "redirect",
                                        !.destinationId = selectedOffer.id]
                      ELSE rule,
             cache |-> offerUrl.cache]
        ELSE IF rule.destinationId # "" /\ ~Truthy(rule.defaultFolder) THEN
            [rule |-> IF Truthy(legacy.url)
                      THEN [rule EXCEPT !.defaultFolder = legacy.url,
                                        !.defaultFolderMode =
                                            IF @ # "" THEN @ ELSE "redirect"]
                      ELSE [rule EXCEPT !.defaultFolder = NoText],
             cache |-> legacy.cache]
        ELSE [rule |-> rule, cache |-> cache]

\* getKVRule: the bundle found by the walk, with its defaults resolved, and
\* the key it was found under; found is FALSE for null.
GetKVRule(store, domain, path, cache, env) ==
    LET hit == GetKVKey(store, domain, path)
        resolved == ResolveDefaultDestinations(store[hit[1]], cache, env)
    IN  IF hit = <<>> THEN [found |-> FALSE, cache |-> cache]
        ELSE [found |-> TRUE, key |-> hit[1], rule |-> resolved.rule,
              cache |-> resolved.cache]

\* ----------------------------------------------------------- event store

\* The argument of storeEvent, as the row it becomes.
EventData(eventId, sessionId, campaignId, isImpression, isClick, query, landingPageMode, destinationUrl, destinationId) ==
    [eventId |-> eventId, sessionId |-> sessionId, campaignId |-> campaignId,
     isImpression |-> isImpression, isClick |-> isClick, isConversion |-> FALSE,
     clickId |-> NoId, queryParams |-> <<query>>,
     landingPageMode |-> landingPageMode,
     destinationUrl |-> destinationUrl, destinationId |-> destinationId,
     payout |-> <<>>, conversionType |-> "", postbackData |-> {}]

\* The argument of storeConversion, as the row it becomes: session_id and
\* campaign_id fall to null ('' here) when empty, the request context is null.
ConversionData(conversionId, clickId, sessionId, campaignId, payout, conversionType, postbackData) ==
    [eventId |-> conversionId, sessionId |-> sessionId, campaignId |-> campaignId,
     isImpression |-> FALSE, isClick |-> FALSE, isConversion |-> TRUE,
     clickId |-> clickId, queryParams |-> <<>>,
     landingPageMode |-> "",
     destinationUrl |-> NoText, destinationId |-> "",
     payout |-> <<payout>>, conversionType |-> conversionType,
     postbackData |-> postbackData]

\* A storeEvent without the orphan guard.
IsOrphanNever(row) == FALSE

\* storeEvent's guard: !data.campaignId || data.campaignId.trim() === ''
IsOrphan(row) == row.campaignId \in {"", " "}

\* The rows a scheduled write hands to storeInPlanetScale: storeEvent drops
\* an orphan, storeConversion passes everything on.
HandedRows(task) ==
    IF task.op = "storeEvent" /\ IsOrphan(task.row) THEN {} ELSE {task.row}

\* What the INSERT binds: `data.payout || null` turns a payout of 0 into null.
BoundRow(row) ==
    [row EXCEPT !.payout = IF @ = <<0>> THEN <<>> ELSE @]

\* An INSERT that overwrites the row on conflict (DO UPDATE).
InsertEventOverwriting(store, row) ==
    {r \in store : r.eventId # row.eventId} \cup {BoundRow(row)}

\* INSERT ... ON CONFLICT (event_id) DO NOTHING
InsertEvent(store, row) ==
    IF \E r \in store : r.eventId = row.eventId THEN store
    ELSE store \cup {BoundRow(row)}

\* getLandingPageFromImpression: <<info>> for the row with that event_id and
\* is_impression, <<>> for null (no such row, or the query failed).
GetLandingPageFromImpression(store, impressionId, dbOk) ==
    LET rows == {r \in store : r.eventId = impressionId /\ r.isImpression}
        row == CHOOSE r \in rows : TRUE
    IN  IF ~dbOk \/ rows = {} THEN <<>>
        ELSE <<[landingPageMode |-> row.landingPageMode,
                queryParams |-> row.queryParams]>>

\* A getClickData that selects by event_id alone, whatever kind the row is.
GetClickDataAnyRow(store, clickId, dbOk) ==
    LET rows == {r \in store : r.eventId = clickId}
        row == CHOOSE r \in rows : TRUE
    IN  IF ~dbOk \/ rows = {} THEN <<>>
        ELSE <<[click_id |-> row.eventId,
                impression_id |-> IF row.isImpression THEN row.eventId ELSE NoId,
                session_id |-> row.sessionId,
                campaign_id |-> row.campaignId]>>

\* getClickData: <<click>> for the row with that event_id and is_click,
\* <<>> for null (no such row, or the query failed).
GetClickData(store, clickId, dbOk) ==
    LET rows == {r \in store : r.eventId = clickId /\ r.isClick}
        row == CHOOSE r \in rows : TRUE
    IN  IF ~dbOk \/ rows = {} THEN <<>>
        ELSE <<[click_id |-> row.eventId,
                impression_id |-> IF row.isImpression THEN row.eventId ELSE NoId,
                session_id |-> row.sessionId,
                campaign_id |-> row.campaignId]>>

\* ------------------------------------------------------------ responses

\* Status of servePublicFile / handleInitialProxyRequest by the outcome of
\* the fetch behind it: the asset or upstream page (2xx), a miss (the custom
\* 404 page, or the upstream's non-2xx status), or an exception (500).
ServedStatus(fetch) ==
    CASE fetch = "ok" -> 200
      [] fetch = "miss" -> 404
      [] fetch = "throw" -> 500

\* Status of serveNotFoundPage: 404 with the error page, or what
\* servePublicFile answered when the error page could not be served.
NotFoundStatus(fetch) == IF fetch = "ok" THEN 404 ELSE 500

\* response.ok
IsOk(status) == status >= 200 /\ status <= 299

NoContext == [clickId |-> NoId, impressionId |-> NoId, sessionId |-> NoId]

\* What handling a request by applyKVRule comes to: the branch taken, the
\* response, the writes handed to waitUntil, the ids minted on the way, the
\* MacroContext used for the destination, data.query at the end, the cache.
Outcome(branch, status, kind, location, scheduled, minted, context, query, cache) ==
    [branch |-> branch, status |-> status, kind |-> kind, location |-> location,
     scheduled |-> scheduled, minted |-> minted, context |-> context,
     query |-> query, cache |-> cache]

\* A BlockSet without any list; an absent list is <<>>, a present one is
\* <<patterns>>.
NoBlocks ==
    [ips |-> <<>>, orgs |-> <<>>, hostnames |-> <<>>, cities |-> <<>>,
     countries |-> <<>>, devices |-> <<>>, browsers |-> <<>>, oses |-> <<>>]

\* Block checks that look at the country, device and browser lists only.
IsBlockedGeoAndAgentOnly(data, blocks) ==
    \/ /\ blocks.countries # <<>> /\ data.geo.country # ""
       /\ \E pat \in blocks.countries[1] : MatchWildcard(data.geo.country, pat)
    \/ /\ blocks.devices # <<>> /\ data.userAgent.device # ""
       /\ \E pat \in blocks.devices[1] : MatchWildcard(data.userAgent.device, pat)
    \/ /\ blocks.browsers # <<>> /\ data.userAgent.browser # ""
       /\ \E pat \in blocks.browsers[1] : MatchWildcard(data.userAgent.browser, pat)

\* The block checks of applyKVRule: some list of the BlockSet has a pattern
\* matching the request's value.
IsBlocked(data, blocks) ==
    \/ /\ blocks.ips # <<>> /\ data.ip # NoIp
       /\ \E range \in blocks.ips[1] : IsIpInRange(data.ip, range)
    \/ /\ blocks.orgs # <<>> /\ data.org # ""
       /\ \E pat \in blocks.orgs[1] : MatchWildcard(data.org, pat)
    \/ /\ blocks.hostnames # <<>> /\ data.headers.host # ""
       /\ \E pat \in blocks.hostnames[1] : MatchWildcard(data.headers.host, pat)
    \/ /\ blocks.cities # <<>> /\ data.geo.city # ""
       /\ \E pat \in blocks.cities[1] : MatchWildcard(data.geo.city, pat)
    \/ /\ blocks.oses # <<>> /\ data.userAgent.os # ""
       /\ \E pat \in blocks.oses[1] : MatchWildcard(data.userAgent.os, pat)
    \/ /\ blocks.countries # <<>> /\ data.geo.country # ""
       /\ \E pat \in blocks.countries[1] : MatchWildcard(data.geo.country, pat)
    \/ /\ blocks.devices # <<>> /\ data.userAgent.device # ""
       /\ \E pat \in blocks.devices[1] : MatchWildcard(data.userAgent.device, pat)
    \/ /\ blocks.browsers # <<>> /\ data.userAgent.browser # ""
       /\ \E pat \in blocks.browsers[1] : MatchWildcard(data.userAgent.browser, pat)

\* isLikelyBot || data.isVerifiedBot
IsBotRequest(data) ==
    \/ data.isBot
    \/ data.botScore # <<>> /\ data.botScore[1] < 30
    \/ data.clientTrustScore # <<>> /\ data.clientTrustScore[1] > 50
    \/ data.isVerifiedBot

\* The safe page served to a bot or a blocked visitor: the default by its
\* mode; no write is scheduled.
ServeDefaultFolder(branch, data, rule, env, cache) ==
    LET mode == rule.defaultFolderMode
        defaultFolder == rule.defaultFolder
        context == [NoContext EXCEPT !.sessionId = data.sessionId,
                                     !.impressionId = data.impressionId]
    IN  IF mode = "redirect" /\ IsUrl(defaultFolder)
        THEN Outcome(branch, 302, "redirect", ReplaceMacrosInUrl(defaultFolder, context),
                     {}, 0, context, data.query, cache)
        ELSE IF mode = "proxy" \/ (IsUrl(defaultFolder) /\ mode # "hosted")
        THEN Outcome(branch, ServedStatus(env.fetch), "proxy", NoText,
                     {}, 0, NoContext, data.query, cache)
        ELSE Outcome(branch, ServedStatus(env.fetch), "file", NoText,
                     {}, 0, NoContext, data.query, cache)

\* A click row stored under the impressionId of the request.
ClickWriteWithImpressionId(data, rule, clickId, query, landingPageMode, redirectUrl, destinationId) ==
    [op |-> "storeEvent",
     row |-> EventData(data.impressionId, data.sessionId, rule.id, FALSE, TRUE, query,
                       landingPageMode, redirectUrl, destinationId)]

\* The click row of a click-out: eventId is the clickId, isClick only.
ClickWrite(data, rule, clickId, query, landingPageMode, redirectUrl, destinationId) ==
    [op |-> "storeEvent",
     row |-> EventData(clickId, data.sessionId, rule.id, FALSE, TRUE, query,
                       landingPageMode, redirectUrl, destinationId)]

\* The click-out redirect, for a rule's click target and for the root-level
\* fallback alike: mint the clickId, merge the impression's query, build the
\* redirect URL, schedule the click row, answer 302.  `new URL` throws on a
\* target that is not an absolute URL; nothing in applyKVRule catches it.
ClickOutRedirect(branch, data, rule, clickDestination, destinationId, env, store, n, cache) ==
    LET clickId == GenerateUniqueId("click", n)
        sessionId == data.sessionId
        impressionId == IF data.impressionId # NoId THEN data.impressionId
                        ELSE GenerateUniqueId("imp", n + 1)
        minted == IF data.impressionId # NoId THEN 1 ELSE 2
        landingPageInfo == GetLandingPageFromImpression(store, impressionId, env.dbOk)
        query == IF landingPageInfo # <<>> /\ landingPageInfo[1].queryParams # <<>>
                 THEN MergeQuery(landingPageInfo[1].queryParams[1], data.query)
                 ELSE data.query
        clickMacroContext == [clickId |-> clickId, impressionId |-> impressionId,
                              sessionId |-> sessionId]
        clickDestinationWithMacros == ReplaceMacrosInUrl(clickDestination, clickMacroContext)
        redirectUrl ==
            SetParam(SetParam(SetParam(SetParams(clickDestinationWithMacros, query),
                                       "click_id", clickId),
                              "impression_id", impressionId),
                     "session_id", sessionId)
        landingPageMode == IF landingPageInfo # <<>> THEN landingPageInfo[1].landingPageMode
                           ELSE rule.defaultFolderMode
        write == ClickWrite(data, rule, clickId, query, landingPageMode, redirectUrl,
                            destinationId)
    IN  IF ~IsUrl(clickDestination)
        THEN Outcome("exception", 500, "error", NoText, {}, minted,
                     clickMacroContext, query, cache)
        ELSE Outcome(branch, 302, "redirect", redirectUrl, {write}, minted,
                     clickMacroContext, query, cache)

\* --------------------------------------------------------- applyKVRule

\* The click target of a request on a /click path: the click rule selected
\* by weight among the matching rules that carry a target, then its
\* clickDestinations (one picked by weight and looked up; the loop breaks
\* after the first pick, resolved or not) or else its clickUrl.  url is ''
\* when no target came out of it.
ClickOutTarget(data, rule, isAssetRequest, env, cache) ==
    LET clickMatchingRules == ClickMatchingRules(data, rule, isAssetRequest)
        i == PickIndex(RuleWeights(clickMatchingRules), env.rClick)
        selectedClickRule == clickMatchingRules[i]
        clickDestinations == selectedClickRule.clickDestinations[1]
        validDestinations == SelectSeq(clickDestinations, LAMBDA d : d.id \notin {"", " "})
        j == PickIndex(DestWeights(validDestinations), env.rClickDest)
        dest == validDestinations[j]
        looked == GetDestinationUrl(dest.id, cache, env.recent, env.d1Ok)
        none == [url |-> NoText, destinationId |-> "", cache |-> cache]
    IN  IF Len(clickMatchingRules) = 0 \/ i = 0 THEN none
        ELSE IF selectedClickRule.clickDestinations # <<>> /\ Len(clickDestinations) > 0
        THEN IF Len(validDestinations) = 0 \/ j = 0 THEN none
             ELSE [url |-> looked.url, destinationId |-> dest.id, cache |-> looked.cache]
        ELSE IF Truthy(selectedClickRule.clickUrl)
        THEN [url |-> selectedClickRule.clickUrl, destinationId |-> "", cache |-> cache]
        ELSE none

\* The winning rule: one of the matching rules by weight; <<>> when none
\* matches.
SelectedRule(data, rule, isAssetRequest, env) ==
    LET matchingRules == MatchingRules(data, rule, isAssetRequest)
        i == PickIndex(RuleWeights(matchingRules), env.rRule)
    IN  IF Len(matchingRules) = 0 \/ i = 0 THEN <<>> ELSE <<matchingRules[i]>>

\* The action of the bundle's default: by defaultFolderMode and the kind of
\* defaultFolder.
DefaultAction(rule) ==
    LET mode == rule.defaultFolderMode
        defaultFolder == rule.defaultFolder
    IN  IF mode = "redirect" /\ IsUrl(defaultFolder)
        THEN [type |-> "redirect", payload |-> defaultFolder]
        ELSE IF mode = "proxy" \/ (IsUrl(defaultFolder) /\ mode # "hosted")
        THEN [type |-> "proxy", payload |-> defaultFolder]
        ELSE [type |-> "folder", payload |-> defaultFolder]

\* The action of a rule's destinations array: one valid destination by
\* weight, typed by its mode or by the kind of its value.
DestinationAction(destinations, env) ==
    LET validDestinations == SelectSeq(destinations, LAMBDA d : Truthy(d.value))
        j == PickIndex(DestWeights(validDestinations), env.rDest)
        selectedDestination == IF j = 0 THEN validDestinations[1] ELSE validDestinations[j]
        destValue == selectedDestination.value
        destMode == selectedDestination.mode
    IN  IF destMode = "redirect" /\ IsUrl(destValue)
        THEN [type |-> "redirect", payload |-> destValue]
        ELSE IF destMode = "proxy" \/ (IsUrl(destValue) /\ destMode # "hosted")
        THEN [type |-> "proxy", payload |-> destValue]
        ELSE [type |-> "folder", payload |-> destValue]

\* finalAction of the selected rule: its destinations, else modifications,
\* proxyUrl, redirectUrl, folder (a URL in folder is proxied), else the
\* bundle's default as proxy or folder whatever defaultFolderMode says.
RuleAction(selectedRule, rule, env) ==
    IF /\ Len(selectedRule.destinations) > 0
       /\ \E k \in 1..Len(selectedRule.destinations) :
              Truthy(selectedRule.destinations[k].value)
    THEN DestinationAction(selectedRule.destinations, env)
    ELSE IF selectedRule.modifications
    THEN [type |-> "modifications", payload |-> NoText]
    ELSE IF Truthy(selectedRule.proxyUrl)
    THEN [type |-> "proxy", payload |-> selectedRule.proxyUrl]
    ELSE IF Truthy(selectedRule.redirectUrl)
    THEN [type |-> "redirect", payload |-> selectedRule.redirectUrl]
    ELSE IF Truthy(selectedRule.folder)
    THEN [type |-> IF IsUrl(selectedRule.folder) THEN "proxy" ELSE "folder",
          payload |-> selectedRule.folder]
    ELSE [type |-> IF rule.defaultFolder.http THEN "proxy" ELSE "folder",
          payload |-> rule.defaultFolder]

FinalAction(data, rule, isAssetRequest, env) ==
    LET selectedRule == SelectedRule(data, rule, isAssetRequest, env)
    IN  IF selectedRule # <<>> THEN RuleAction(selectedRule[1], rule, env)
        ELSE DefaultAction(rule)

\* extractLandingPageInfo(finalAction).landingPageMode, with the 'proxy' the
\* modifications call site puts in for null
LandingPageMode(finalAction) ==
    CASE finalAction.type = "folder" -> "hosted"
      [] finalAction.type = "proxy" -> "proxy"
      [] finalAction.type = "redirect" -> "redirect"
      [] finalAction.type = "modifications" -> "proxy"

\* A redirect action that mints a click id of its own for the macros.
RedirectWriteOwnClickId(data, rule, finalAction, n) ==
    LET redirectMacroContext == [clickId |-> GenerateUniqueId("click", n),
                                 impressionId |-> data.impressionId,
                                 sessionId |-> data.sessionId]
        redirectUrl == ReplaceMacrosInUrl(finalAction.payload, redirectMacroContext)
    IN  [context |-> redirectMacroContext,
         url |-> redirectUrl,
         minted |-> 1,
         write |-> [op |-> "storeEvent",
                    row |-> EventData(data.impressionId, data.sessionId, rule.id,
                                      TRUE, TRUE, data.query, "redirect", redirectUrl,
                                      rule.destinationId)]]

\* The redirect action's event and destination, shared by the server-side
\* redirect and the embed JS redirect: one id serves as eventId, as
\* impressionId and as clickId of the MacroContext.
RedirectWrite(data, rule, finalAction, n) ==
    LET redirectEventId == IF data.impressionId # NoId THEN data.impressionId
                           ELSE GenerateUniqueId("evt", n)
        redirectMacroContext == [clickId |-> redirectEventId,
                                 impressionId |-> redirectEventId,
                                 sessionId |-> data.sessionId]
        redirectUrl == ReplaceMacrosInUrl(finalAction.payload, redirectMacroContext)
    IN  [context |-> redirectMacroContext,
         url |-> redirectUrl,
         minted |-> IF data.impressionId # NoId THEN 0 ELSE 1,
         write |-> [op |-> "storeEvent",
                    row |-> EventData(redirectEventId, data.sessionId, rule.id, TRUE, TRUE,
                                      data.query, "redirect", redirectUrl,
                                      rule.destinationId)]]

\* An impression tracked on the root path alone.
ImpressionWritesRootOnly(data, rule, finalAction, status) ==
    IF IsOk(status) /\ data.impressionId # NoId /\ data.path = <<"/">>
    THEN {[op |-> "storeEvent",
           row |-> EventData(data.impressionId, data.sessionId, rule.id, TRUE, FALSE,
                             data.query, LandingPageMode(finalAction), NoText, "")]}
    ELSE {}

\* An impression scheduled whatever the status of the response.
ImpressionWritesAnyStatus(data, rule, finalAction, status) ==
    IF data.impressionId # NoId /\ IsTrackedPagePath(data.path)
    THEN {[op |-> "storeEvent",
           row |-> EventData(data.impressionId, data.sessionId, rule.id, TRUE, FALSE,
                             data.query, LandingPageMode(finalAction), NoText, "")]}
    ELSE {}

\* The impression a folder, proxy or modifications response schedules: only
\* for an ok response, a request with an impressionId, and a path that is
\* "/", ends with "/" or ends with .html / .htm.
ImpressionWrites(data, rule, finalAction, status) ==
    IF IsOk(status) /\ data.impressionId # NoId /\ IsTrackedPagePath(data.path)
    THEN {[op |-> "storeEvent",
           row |-> EventData(data.impressionId, data.sessionId, rule.id, TRUE, FALSE,
                             data.query, LandingPageMode(finalAction), NoText, "")]}
    ELSE {}

\* skipJSRedirect: a plain 302 when the server-side signals suffice.
SkipJSRedirect(userAgent) ==
    LET isDesktop == userAgent.device = "desktop" \/ userAgent.device = ""
        hasAccurateOSVersion == userAgent.osVersion \notin {"", "10.15.7", "10.0"}
        isSafariIOS == /\ userAgent.browser \in {"Safari", "Mobile Safari", ""}
                       /\ userAgent.os = "iOS"
    IN  IF isDesktop THEN hasAccurateOSVersion
        ELSE hasAccurateOSVersion /\ ~isSafariIOS

\* JS snippet delivery of the final action.
ExecuteEmbed(data, rule, finalAction, n, cache) ==
    LET rw == RedirectWrite(data, rule, finalAction, n)
    IN  CASE finalAction.type = "modifications" ->
               Outcome("embed-modifications", 200, "js", NoText, {}, 0, NoContext,
                       data.query, cache)
          [] finalAction.type = "proxy" ->
               Outcome("embed-proxy", 200, "js", NoText, {}, 0, NoContext,
                       data.query, cache)
          [] finalAction.type = "redirect" ->
               Outcome("embed-redirect", 200, "js-redirect", rw.url, {rw.write},
                       rw.minted, rw.context, data.query, cache)
          [] finalAction.type = "folder" ->
               Outcome("embed-folder", 200, "js", NoText, {}, 0, NoContext,
                       data.query, cache)

\* DNS proxy delivery of the final action.
ExecuteDirect(data, rule, ruleKey, finalAction, env, n, cache) ==
    LET status == ServedStatus(env.fetch)
        rw == RedirectWrite(data, rule, finalAction, n)
        rulePath == IF Len(ruleKey) > 1 THEN Tail(ruleKey) ELSE <<"/">>
        normalizedRulePath == StripTrailingSlash(rulePath)
        normalizedRequestPath == StripTrailingSlash(data.path)
    IN  CASE finalAction.type = "modifications" ->
               Outcome("modifications", status, "proxy", NoText,
                       ImpressionWrites(data, rule, finalAction, status), 0,
                       NoContext, data.query, cache)
          [] finalAction.type = "proxy" ->
               Outcome("proxy", status, "proxy", NoText,
                       ImpressionWrites(data, rule, finalAction, status), 0,
                       NoContext, data.query, cache)
          [] finalAction.type = "redirect" ->
               IF normalizedRulePath # normalizedRequestPath
               THEN Outcome("path-mismatch", NotFoundStatus(env.fetch), "notfound", NoText,
                            {}, 0, NoContext, data.query, cache)
               ELSE IF SkipJSRedirect(data.userAgent)
               THEN Outcome("redirect", 302, "redirect", rw.url, {rw.write},
                            rw.minted, rw.context, data.query, cache)
               ELSE Outcome("redirect", 200, "html-redirect", rw.url, {rw.write},
                            rw.minted, rw.context, data.query, cache)
          [] finalAction.type = "folder" ->
               Outcome("folder", status, "file", NoText,
                       ImpressionWrites(data, rule, finalAction, status), 0,
                       NoContext, data.query, cache)

\* A delivery that schedules an impression next to whatever the action
\* schedules itself.
ExecuteActionAndImpression(data, rule, ruleKey, finalAction, env, n, cache) ==
    [ExecuteDirect(data, rule, ruleKey, finalAction, env, n, cache)
        EXCEPT !.scheduled = @ \cup ImpressionWrites(data, rule, finalAction, 200)]

\* applyKVRule's way from the final action to the response: the embed
\* snippet for GET /track.js, direct delivery otherwise.
ExecuteAction(data, rule, ruleKey, finalAction, env, n, cache) ==
    IF data.isEmbedRequest
    THEN ExecuteEmbed(data, rule, finalAction, n, cache)
    ELSE ExecuteDirect(data, rule, ruleKey, finalAction, env, n, cache)

\* applyKVRule on a /click path, the click target looked up: the click-out
\* redirect, the root-level fallback (destinationId with a defaultFolder),
\* or on to rule matching.
ApplyClickOut(data, rule, ruleKey, target, env, store, n) ==
    IF Truthy(target.url)
    THEN ClickOutRedirect("click-out", data, rule, target.url,
                          target.destinationId, env, store, n, target.cache)
    ELSE IF rule.destinationId # "" /\ Truthy(rule.defaultFolder)
    THEN ClickOutRedirect("click-fallback", data, rule, rule.defaultFolder,
                          rule.destinationId, env, store, n, target.cache)
    ELSE ExecuteAction(data, rule, ruleKey,
                       FinalAction(data, rule, ~IsPageLike(data.path), env),
                       env, n, target.cache)

\* An applyKVRule that handles click-outs before the bot and block checks.
ApplyChecksClickOutFirst(data, rule, ruleKey, env, store, n, cache) ==
    IF IsClickOutPath(data.path)
    THEN ApplyClickOut(data, rule, ruleKey,
                       ClickOutTarget(data, rule, ~IsPageLike(data.path), env, cache),
                       env, store, n)
    ELSE IF IsBotRequest(data) /\ IsPageLike(data.path)
    THEN ServeDefaultFolder("bot", data, rule, env, cache)
    ELSE IF rule.blocks # <<>> /\ IsBlocked(data, rule.blocks[1])
    THEN ServeDefaultFolder("block", data, rule, env, cache)
    ELSE ExecuteAction(data, rule, ruleKey,
                       FinalAction(data, rule, ~IsPageLike(data.path), env),
                       env, n, cache)

\* applyKVRule from the bot check on: bot check, block check, click-out,
\* then the action of the winning rule or of the default.
ApplyChecks(data, rule, ruleKey, env, store, n, cache) ==
    IF IsBotRequest(data) /\ IsPageLike(data.path)
    THEN ServeDefaultFolder("bot", data, rule, env, cache)
    ELSE IF rule.blocks # <<>> /\ IsBlocked(data, rule.blocks[1])
    THEN ServeDefaultFolder("block", data, rule, env, cache)
    ELSE IF IsClickOutPath(data.path)
    THEN ApplyClickOut(data, rule, ruleKey,
                       ClickOutTarget(data, rule, ~IsPageLike(data.path), env, cache),
                       env, store, n)
    ELSE ExecuteAction(data, rule, ruleKey,
                       FinalAction(data, rule, ~IsPageLike(data.path), env),
                       env, n, cache)

\* An outcome with k more ids minted before it.
AddMinted(out, k) == [out EXCEPT !.minted = @ + k]

\* applyKVRule: a request without impressionId on a tracked page path gets
\* one first; then the checks and the action.
ApplyKVRule(data, rule, ruleKey, env, store, n, cache) ==
    IF data.impressionId = NoId /\ IsTrackedPagePath(data.path)
    THEN AddMinted(ApplyChecks([data EXCEPT !.impressionId = GenerateUniqueId("imp", n)],
                               rule, ruleKey, env, store, n + 1, cache), 1)
    ELSE ApplyChecks(data, rule, ruleKey, env, store, n, cache)

\* ------------------------------------------------------------- requests

\* What parseBrowser, parseOS, parseDeviceType and extractOSVersion make of
\* the User-Agent headers of the model's two visitors.
UserAgents ==
    [chromeMac |-> [device |-> "Desktop", browser |-> "Chrome",
                    os |-> "macOS", osVersion |-> "14.4", brand |-> "Apple"],
     safariIphone |-> [device |-> "Mobile", browser |-> "Mobile Safari",
                       os |-> "iOS", osVersion |-> "17.1", brand |-> "Apple"]]

\* generateSessionId: the FNV-1a hash of the fingerprint, in base 36.  The
\* model's visitors differ in their User-Agent only; their hashes differ.
GenerateSessionId(ua) ==
    CASE ua = "chromeMac" -> Lit("0k3v9q1x")
      [] ua = "safariIphone" -> Lit("1b7m2z8d")

TrackJs == <<"/", "track", ".js">>

\* Request paths of the dispatch specification.
RequestPaths ==
    {<<"/">>, <<"/", "lp">>, <<"/", "a", ".html">>, <<"/", "s", ".css">>, <<"/", "click">>}

\* Query strings of the page requests.
RequestQueries == {{}, {<<"fbclid", Lit("F")>>}}

\* The url parameter of GET /track.js: absent (<<>>), not parseable, or the
\* URL of the embedding page.
ClientUrls ==
    {<<>>, <<[valid |-> FALSE, host |-> "", path |-> <<"/">>, query |-> {}]>>}
      \cup {<<[valid |-> TRUE, host |-> "h", path |-> <<"/">>, query |-> q]>> :
               q \in RequestQueries}

\* The bot signals of the transport metadata (request.cf) and of the
\* User-Agent: none of them raised.
NoBotSignals ==
    [botScore |-> <<>>, clientTrustScore |-> <<>>, verifiedBot |-> FALSE, botUA |-> FALSE]

\* A request to the catch-all route (purpose is the sec-purpose / purpose
\* header, url the url parameter of GET /track.js).
Request(purpose, path, query, url, country, ua) ==
    [purpose |-> purpose, host |-> "h", path |-> path, query |-> query, url |-> url,
     country |-> country, ua |-> ua, ip |-> <<100, 64, 1, 7>>, org |-> "Comcast",
     city |-> "Austin", cf |-> NoBotSignals, region |-> "TX", continent |-> "NA",
     asn |-> 7922, colo |-> "DFW", acceptLanguage |-> <<<<"EN", "US">>, <<"en">>>>,
     now |-> 570, referrer |-> <<>>]

\* Bot signals a request can carry: a low bot score, a high threat score,
\* a verified bot.
BotSignals ==
    {[NoBotSignals EXCEPT !.botScore = <<5>>],
     [NoBotSignals EXCEPT !.clientTrustScore = <<80>>],
     [NoBotSignals EXCEPT !.verifiedBot = TRUE]}

\* Requests to the catch-all route: pages, assets and click-outs of host h
\* by a US visitor on a desktop Chrome, by a Canadian one, and the home page
\* by an iPhone; requests with bot signals; the embed script; speculative
\* loads.
Requests ==
    {Request("", p, q, <<>>, "US", "chromeMac") : p \in RequestPaths, q \in RequestQueries}
      \cup
    {Request("", p, {}, <<>>, "CA", "chromeMac") : p \in RequestPaths}
      \cup
    {Request("", <<"/">>, {}, <<>>, "US", "safariIphone")}
      \cup
    {[Request("", <<"/">>, {}, <<>>, "US", "chromeMac") EXCEPT !.cf = sig] : sig \in BotSignals}
      \cup
    {[Request("", <<"/", "s", ".css">>, {}, <<>>, "US", "chromeMac") EXCEPT
         !.cf = [NoBotSignals EXCEPT !.verifiedBot = TRUE]]}
      \cup
    {Request("", TrackJs, {}, u, "US", "chromeMac") : u \in ClientUrls}
      \cup
    {Request("", TrackJs, {},
             <<[valid |-> TRUE, host |-> "h", path |-> <<"/">>, query |-> {}]>>,
             "US", "safariIphone")}
      \cup
    {Request("", TrackJs, {},
             <<[valid |-> TRUE, host |-> "h", path |-> <<"/", "lp">>, query |-> {}]>>,
             "US", "chromeMac")}
      \cup
    {Request(pp, p, {}, <<>>, "US", "chromeMac") :
        pp \in {"prefetch", "prerender"}, p \in {<<"/">>, <<"/", "click">>, TrackJs}}

\* secPurpose.includes("prefetch") || secPurpose.includes("prerender")
IsSpeculative(purpose) == purpose \in {"prefetch", "prerender", "prefetch;prerender"}

\* ------------------------------------------------------- model bundles

Rule(flags, folder, proxyUrl, redirectUrl, clickUrl, clickDestinations) ==
    [flags |-> flags, groups |-> <<>>, weight |-> 0, modifications |-> FALSE,
     destinations |-> <<>>, folder |-> folder, proxyUrl |-> proxyUrl,
     redirectUrl |-> redirectUrl, clickUrl |-> clickUrl,
     clickDestinations |-> clickDestinations]

Bundle(id, rs, defaultFolder, mode, destinationId, blocks) ==
    [id |-> id, rules |-> rs, defaultFolder |-> defaultFolder,
     defaultFolderMode |-> mode, destinationId |-> destinationId,
     blocks |-> blocks, defaultDestinations |-> <<>>, defaultOffers |-> <<>>]

OfferUrl == Url("https://offer.example/o", {<<"sub", Lit("{{click.id}}")>>})

UsOnly == [NoFlags EXCEPT !.country = <<{"US"}>>]

BlockCountry(c) == <<[NoBlocks EXCEPT !.countries = <<{c}>>]>>

\* A hosted campaign: landing page lpA with a click-out offer for the US,
\* the safe page for everybody else.
HostedBundle(id) ==
    Bundle(id, <<Rule(UsOnly, Txt("lpA"), NoText, NoText, OfferUrl, <<>>)>>,
           Txt("safe"), "", "", <<>>)

\* A redirect campaign that blocks Canada.
RedirectBundle ==
    Bundle("K2", <<>>,
           Url("https://offer.example/r",
               {<<"cid", Lit("{{click.id}}")>>, <<"imp", Lit("{{impression.id}}")>>}),
           "redirect", "", BlockCountry("ca"))

\* A proxied campaign with a root-level destination; the click-out of its US
\* rule is split between an active and a paused destination.
ProxyBundle ==
    Bundle("K4",
           <<Rule(UsOnly, NoText, Url("https://lp.example/us", {}), NoText, NoText,
                  <<<<[id |-> "off1", weight |-> 1], [id |-> "off2", weight |-> 1]>>>>)>>,
           Url("https://lp.example/", {}), "proxy", "off1", <<>>)

RootKey == <<"h", "/">>

\* The contents of the KV store the dispatch specification starts from.
KVConfigs ==
    {[k \in {RootKey} |-> b] :
        b \in {HostedBundle("K1"), HostedBundle(""), RedirectBundle, ProxyBundle}}
      \cup {[k \in {} |-> RedirectBundle]}

\* ----------------------------------------------- dispatch specification

\* The bundles of the KV store.
Bundles == {kv[k] : k \in DOMAIN kv}

\* The values of one Math.random(): all of them where the draw can matter,
\* 0 where nothing is chosen among several.
Draws(live) == IF live THEN 0..(RandDenom - 1) ELSE {0}

\* What a request meets outside the worker: the outcome of the asset or
\* upstream fetch, whether the queries to the event store and to D1 succeed,
\* whether a cached destination is younger than 100 ms, and the random draws.
Envs(req) ==
    LET severalRules == \E b \in Bundles : Len(b.rules) > 1
        severalDests ==
            \E b \in Bundles :
                \E i \in 1..Len(b.rules) : Len(b.rules[i].destinations) > 1
        severalClickDests ==
            \E b \in Bundles :
                \E i \in 1..Len(b.rules) :
                    /\ b.rules[i].clickDestinations # <<>>
                    /\ Len(b.rules[i].clickDestinations[1]) > 1
        severalLPs == \E b \in Bundles : Len(b.defaultDestinations) > 1
        severalOffers ==
            \E b \in Bundles :
                \/ Len(b.defaultOffers) > 1
                \/ \E i \in 1..Len(b.defaultDestinations) :
                       Len(b.defaultDestinations[i].offers) > 1
        usesD1 ==
            \E b \in Bundles :
                \/ b.destinationId # ""
                \/ Len(b.defaultOffers) > 0
                \/ Len(b.defaultDestinations) > 0
                \/ \E i \in 1..Len(b.rules) : b.rules[i].clickDestinations # <<>>
    IN  {[fetch |-> f, dbOk |-> db, d1Ok |-> d1, recent |-> rc,
          rLP |-> r1, rOffer |-> r2, rRule |-> r3, rDest |-> r4,
          rClick |-> r5, rClickDest |-> r6] :
            f \in {"ok", "miss", "throw"},
            db \in IF IsClickOutPath(req.path) THEN BOOLEAN ELSE {TRUE},
            d1 \in IF usesD1 THEN BOOLEAN ELSE {TRUE},
            rc \in IF destinationUrlCache # {} THEN BOOLEAN ELSE {FALSE},
            r1 \in Draws(severalLPs), r2 \in Draws(severalOffers),
            r3 \in Draws(severalRules), r4 \in Draws(severalDests),
            r5 \in Draws(severalRules), r6 \in Draws(severalClickDests)}

\* The answer to a request that never reaches applyKVRule.
EarlyAnswer(branch, status, kind, looked, cache) ==
    Outcome(branch, status, kind, NoText, {}, 0, NoContext, {}, cache)
        @@ ("looked" :> looked)

\* A referrer fallback that proxies whatever the referring page's bundle
\* serves, without the test for an http(s) default.
ReferrerFallbackAnyDefault(data, refKv, env) ==
    IF refKv.found /\ env.fetch # "throw"
    THEN EarlyAnswer("referrer-proxy", ServedStatus(env.fetch), "asset", TRUE,
                     refKv.cache)
    ELSE EarlyAnswer("no-rule", NotFoundStatus(env.fetch), "notfound", TRUE,
                     refKv.cache)

\* The referrer-based proxy fallback once getKVRule has answered for the
\* path of the referer: the asset streamed from the upstream of the
\* referring page when its bundle's default is an http(s) URL (an exception
\* of the fetch is caught and ignored), the 404 page otherwise.
ReferrerFallback(data, refKv, env) ==
    IF refKv.found /\ IsUrl(refKv.rule.defaultFolder) /\ env.fetch # "throw"
    THEN EarlyAnswer("referrer-proxy", ServedStatus(env.fetch), "asset", TRUE,
                     refKv.cache)
    ELSE EarlyAnswer("no-rule", NotFoundStatus(env.fetch), "notfound", TRUE,
                     refKv.cache)

\* rulesAction when getKVRule returned null: the referrer fallback for a
\* referer of the request's host that parses as a URL, then the 404 page.
NoRuleAnswer(data, env, cache) ==
    IF /\ data.referrer # <<>>
       /\ data.referrer[1].valid
       /\ data.referrer[1].host = data.domain
    THEN ReferrerFallback(data,
                          GetKVRule(kv, data.domain, data.referrer[1].path, cache, env),
                          env)
    ELSE EarlyAnswer("no-rule", NotFoundStatus(env.fetch), "notfound", TRUE, cache)

\* rulesAction once getKVRule has answered: applyKVRule on the bundle
\* found, the referrer fallback or the 404 page when none is.
ApplyFound(data, kvRuleResult, env, store, n) ==
    IF kvRuleResult.found
    THEN ApplyKVRule(data, kvRuleResult.rule, kvRuleResult.key, env, store, n,
                     kvRuleResult.cache) @@ ("looked" :> TRUE)
    ELSE NoRuleAnswer(data, env, kvRuleResult.cache)

\* The action of the one entry of `rules`: getKVRule, then applyKVRule.
RulesAction(data, env, store, n, cache) ==
    ApplyFound(data, GetKVRule(kv, data.domain, data.path, cache, env), env, store, n)

\* The RequestData of the catch-all handler: host, path and query of the
\* request, or of the url parameter for GET /track.js; sessionId and a
\* fresh impressionId on every request; none of the bot fields applyKVRule
\* reads.
RequestData(req, n) ==
    LET isEmbedRequest == req.path = TrackJs
    IN  [domain |-> IF isEmbedRequest THEN req.url[1].host ELSE req.host,
         path |-> IF isEmbedRequest THEN req.url[1].path ELSE req.path,
         query |-> IF isEmbedRequest THEN req.url[1].query ELSE req.query,
         isEmbedRequest |-> isEmbedRequest,
         sessionId |-> GenerateSessionId(req.ua),
         impressionId |-> GenerateUniqueId("imp", n),
         headers |-> [host |-> req.host, acceptLanguage |-> req.acceptLanguage],
         ip |-> req.ip,
         org |-> req.org,
         referrer |-> req.referrer,
         geo |-> [country |-> req.country, city |-> req.city,
                  regionCode |-> req.region, continent |-> req.continent],
         cf |-> [clientTrustScore |-> req.cf.clientTrustScore, asn |-> req.asn,
                 colo |-> req.colo],
         now |-> req.now,
         userAgent |-> UserAgents[req.ua],
         isBot |-> FALSE, isVerifiedBot |-> FALSE,
         botScore |-> <<>>, clientTrustScore |-> <<>>]

\* A catch-all handler without the prefetch / prerender short-circuit.
MainHandlerNoSpeculativeCheck(req, env, store, n, cache) ==
    IF req.path = TrackJs /\ req.url = <<>>
    THEN EarlyAnswer("embed-missing-url", 400, "js", FALSE, cache)
    ELSE IF req.path = TrackJs /\ ~req.url[1].valid
    THEN EarlyAnswer("embed-invalid-url", 400, "js", FALSE, cache)
    ELSE AddMinted(RulesAction(RequestData(req, n), env, store, n + 1, cache), 1)

\* app.get("/*"): the answer to one request, the ids it mints included.
MainHandler(req, env, store, n, cache) ==
    IF IsSpeculative(req.purpose)
    THEN EarlyAnswer("prefetch", 204, "empty", FALSE, cache)
    ELSE IF req.path = TrackJs /\ req.url = <<>>
    THEN EarlyAnswer("embed-missing-url", 400, "js", FALSE, cache)
    ELSE IF req.path = TrackJs /\ ~req.url[1].valid
    THEN EarlyAnswer("embed-invalid-url", 400, "js", FALSE, cache)
    ELSE AddMinted(RulesAction(RequestData(req, n), env, store, n + 1, cache), 1)

\* The trace a handled request leaves: the response and what led to it in
\* last (dbOk: the queries to the event store succeeded), its writes with
\* waitUntil, the ids it used up.
Respond(route, req, dbOk, out) ==
    /\ idSeq + out.minted <= MaxIds
    /\ last' = [kind |-> "request", route |-> route, req |-> req, dbOk |-> dbOk,
                out |-> out]
    /\ tasks' = tasks \cup out.scheduled
    /\ idSeq' = idSeq + out.minted

\* One request to the catch-all route, handled up to its response; the
\* writes it hands to waitUntil are left to run later.
DispatchAnswer(req, env, out) ==
    /\ Respond("main", req, env.dbOk, out)
    /\ destinationUrlCache' = out.cache
    /\ UNCHANGED <<kv, events, d1Rows, clockMs>>

Dispatch(req, env) ==
    /\ idSeq + 2 <= MaxIds
    /\ DispatchAnswer(req, env,
                      MainHandler(req, env, events, idSeq + 1, destinationUrlCache))

\* parseFloat(c.req.query('payout') || '0') for the payouts of the model
ParseFloat(s) ==
    CASE s = "" -> 0 [] s = "0" -> 0 [] s = "12" -> 12

\* The click_id a postback may carry: none, an id no event has, or the id of
\* an event that is stored or about to be.
PostbackClickIds ==
    {NoId, Lit("unknown")}
        \cup {r.eventId : r \in events}
        \cup {t.row.eventId : t \in tasks}

\* Requests to GET /postback.
PostbackRequests ==
    {[purpose |-> "", clickId |-> id, payout |-> pc[1], conversionType |-> pc[2]] :
        id \in PostbackClickIds, pc \in {<<"", "">>, <<"12", "sale">>}}
      \cup
    {[purpose |-> "prefetch", clickId |-> id, payout |-> "", conversionType |-> ""] :
        id \in PostbackClickIds}

\* The query string of a postback request.
PostbackQuery(req) ==
    {<<"click_id", req.clickId>> : x \in IF req.clickId = NoId THEN {} ELSE {1}}
      \cup {<<"payout", Lit(req.payout)>> : x \in IF req.payout = "" THEN {} ELSE {1}}
      \cup {<<"conversion_type", Lit(req.conversionType)>> :
               x \in IF req.conversionType = "" THEN {} ELSE {1}}

\* A postback handler that stores the conversion whether or not the click
\* is found.
PostbackHandlerWithoutLookup(req, dbOk, iterable, store, n) ==
    LET conversionId == GenerateUniqueId("conv", n)
        write == [op |-> "storeConversion",
                  row |-> ConversionData(conversionId, req.clickId, NoId, "",
                                         ParseFloat(req.payout),
                                         IF req.conversionType = "" THEN "lead"
                                         ELSE req.conversionType,
                                         PostbackQuery(req))]
    IN  IF req.clickId = NoId
        THEN [status |-> 400, scheduled |-> {}, minted |-> 0]
        ELSE IF ~iterable
        THEN [status |-> 500, scheduled |-> {}, minted |-> 1]
        ELSE [status |-> 200, scheduled |-> {write}, minted |-> 1]

\* app.get('/postback').  dbOk: the click lookup succeeds; iterable: the
\* value of c.req.query() can be iterated by for...of as the loop expects
\* (a plain Record cannot: the loop throws a TypeError, which the framework
\* answers with 500 after the conversion id has been minted).
PostbackHandler(req, dbOk, iterable, store, n) ==
    LET clickData == GetClickData(store, req.clickId, dbOk)
        conversionId == GenerateUniqueId("conv", n)
        write == [op |-> "storeConversion",
                  row |-> ConversionData(conversionId, req.clickId,
                                         clickData[1].session_id,
                                         clickData[1].campaign_id,
                                         ParseFloat(req.payout),
                                         IF req.conversionType = "" THEN "lead"
                                         ELSE req.conversionType,
                                         PostbackQuery(req))]
    IN  IF req.clickId = NoId
        THEN [status |-> 400, scheduled |-> {}, minted |-> 0]
        ELSE IF clickData = <<>>
        THEN [status |-> 404, scheduled |-> {}, minted |-> 0]
        ELSE IF ~iterable
        THEN [status |-> 500, scheduled |-> {}, minted |-> 1]
        ELSE [status |-> 200, scheduled |-> {write}, minted |-> 1]

\* One request to /postback, handled up to its response.
Postback(req, dbOk, iterable) ==
    /\ Respond("postback", req, dbOk,
               PostbackHandler(req, dbOk, iterable, events, idSeq + 1))
    /\ UNCHANGED <<kv, events, destinationUrlCache, d1Rows, clockMs>>

\* A write handed to waitUntil runs: storeEvent drops an orphan; otherwise
\* the row is inserted, or the insert fails and the failure is swallowed.
RunTask(task, insertOk) ==
    /\ task \in tasks
    /\ tasks' = tasks \ {task}
    /\ events' = IF insertOk /\ HandedRows(task) # {}
                 THEN InsertEvent(events, task.row)
                 ELSE events
    /\ UNCHANGED <<kv, last, idSeq, destinationUrlCache, d1Rows, clockMs>>

Init ==
    /\ kv \in KVConfigs
    /\ events = {}
    /\ tasks = {}
    /\ last = [kind |-> "none"]
    /\ idSeq = 0
    /\ destinationUrlCache = {}
    /\ d1Rows = Destinations
    /\ clockMs = 0

Next ==
    \/ \E req \in Requests : \E env \in Envs(req) : Dispatch(req, env)
    \/ \E req \in PostbackRequests :
          \E dbOk \in IF req.clickId = NoId THEN {TRUE} ELSE BOOLEAN :
             \E iterable \in IF dbOk /\ req.clickId # NoId THEN BOOLEAN ELSE {TRUE} :
                Postback(req, dbOk, iterable)
    \/ \E task \in tasks, insertOk \in BOOLEAN : RunTask(task, insertOk)

Spec == Init /\ [][Next]_vars

\* ------------------------------------------------- claims on the dispatch

\* The last request went to the given route.
Handled(route) == last.kind = "request" /\ last.route = route

\* The RequestData the catch-all handler built for the last request (its
\* impressionId is the first id the request minted).
LastData == RequestData(last.req, idSeq - last.out.minted + 1)

\* The bundle getKVRule found for the last request.
LastBundle == kv[GetKVKey(kv, LastData.domain, LastData.path)[1]]

\* The bundle carries a campaign id that is not blank.
HasCampaignId(bundle) == bundle.id \notin {"", " "}

\* The event rows the last request handed to the store.
LastRows == UNION {HandedRows(t) : t \in last.out.scheduled}

\* The path is "/", ends with "/" or ends with .html / .htm.
SlashOrHtml(p) == p = <<"/">> \/ p[Len(p)] \in {"/", ".html", ".htm"}

\* The last request was answered by a redirect action.
RedirectAnswered ==
    /\ Handled("main")
    /\ last.out.branch \in {"redirect", "embed-redirect"}

\* C3: every event emitted by a redirect action (302, HTML stub or embed JS
\* redirect) is a single row with isImpression and isClick whose eventId is
\* the request's impressionId and the clickId exposed to the macros; no
\* other row is emitted for the request.
C3_RedirectSingleRow ==
    RedirectAnswered =>
        /\ Cardinality(LastRows) <= 1
        /\ \A row \in LastRows :
              /\ row.isImpression /\ row.isClick
              /\ row.eventId = LastData.impressionId
              /\ row.eventId = last.out.context.clickId
              /\ row.eventId = last.out.context.impressionId

\* C3 witness: an embed JS redirect whose row's eventId stands for
\* {{click.id}} in the destination.
C3_Witness ==
    /\ RedirectAnswered
    /\ last.out.kind = "js-redirect"
    /\ \E row \in LastRows : <<"cid", row.eventId>> \in last.out.location.params

\* The last request was answered 2xx by the direct delivery of a folder or
\* proxy action of a bundle with a campaign id.
HostedOrProxyAnswered ==
    /\ Handled("main")
    /\ last.out.looked
    /\ last.out.branch \in {"folder", "proxy"}
    /\ IsOk(last.out.status)
    /\ HasCampaignId(LastBundle)

\* Exactly one row was emitted, an impression under the request's
\* impressionId.
OneImpressionRow ==
    \E row \in LastRows :
        /\ LastRows = {row}
        /\ row.isImpression /\ ~row.isClick
        /\ row.eventId = LastData.impressionId

\* C4 as stated: a folder or proxy action on any page-like path with a 2xx
\* response and a campaign id emits exactly one impression row.
C4_ImpressionOnPageLike ==
    (HostedOrProxyAnswered /\ IsPageLike(LastData.path)) => OneImpressionRow

\* C4 amended: a folder or proxy action delivered directly on a path that is
\* "/", ends with "/" or ends with .html / .htm, with a 2xx response and a
\* campaign id, emits exactly one impression row (isImpression, not isClick,
\* eventId the request's impressionId).
C4_ImpressionOnSlashOrHtml ==
    (HostedOrProxyAnswered /\ SlashOrHtml(LastData.path)) => OneImpressionRow

\* C4 witness: a hosted page on an .html path with its impression row.
C4_Witness ==
    /\ HostedOrProxyAnswered
    /\ last.out.branch = "folder"
    /\ EndsWithHtml(LastData.path)
    /\ OneImpressionRow

\* The last request was answered by a click-out redirect.
ClickOutAnswered ==
    /\ Handled("main")
    /\ last.out.looked
    /\ last.out.branch \in {"click-out", "click-fallback"}

\* Exactly one row was emitted, a click under the clickId minted last, which
\* is the redirect's click_id and not the impressionId.
OneClickRow ==
    \E row \in LastRows :
        /\ LastRows = {row}
        /\ row.isClick /\ ~row.isImpression
        /\ row.eventId = GenerateUniqueId("click", idSeq)
        /\ row.eventId = last.out.context.clickId
        /\ <<"click_id", row.eventId>> \in last.out.location.params
        /\ row.eventId # LastData.impressionId
        /\ row.eventId # last.out.context.impressionId

\* C5 as stated: every click-out redirect emits exactly one click row under
\* the fresh clickId.
C5_ClickOutOneRow == ClickOutAnswered => OneClickRow

\* C5 amended: every click-out redirect of a bundle with a campaign id emits
\* exactly one row with isClick and not isImpression whose eventId is the
\* freshly minted clickId, also the redirect's click_id parameter, and
\* differs from the impressionId.
C5_ClickOutOneRowWithCampaign ==
    (ClickOutAnswered /\ HasCampaignId(LastBundle)) => OneClickRow

\* C5 witness: the click-out of a rule's clickUrl with its click row.
C5_Witness ==
    /\ ClickOutAnswered
    /\ last.out.branch = "click-out"
    /\ HasCampaignId(LastBundle)
    /\ OneClickRow

\* A step that handles a request to the given route.
HandlerStep(route) ==
    /\ last'.kind = "request"
    /\ last'.route = route
    /\ tasks \subseteq tasks'

Fbclid == <<"fbclid", Lit("F")>>

\* C6: once a page request of the visit has stored an impression row with
\* query {fbclid: F}, a /click request of the same visit without fbclid in
\* its own query is redirected to a URL that contains fbclid=F.
C6_ClickMergesImpressionQuery ==
    [][(/\ HandlerStep("main")
        /\ last'.out.looked
        /\ last'.out.branch \in {"click-out", "click-fallback"}
        /\ last'.dbOk
        /\ \A p \in last'.req.query : p[1] # "fbclid"
        /\ \E r \in events :
              /\ r.isImpression /\ ~r.isClick
              /\ r.sessionId = GenerateSessionId(last'.req.ua)
              /\ r.queryParams = <<{Fbclid}>>)
          => Fbclid \in last'.out.location.params]_vars

\* C7: a postback whose click_id is the eventId of a stored click row is
\* answered 200 and hands the store exactly one conversion row: clickId the
\* click_id, sessionId and campaignId the click row's, payout and
\* conversion_type of the query, every query parameter in postbackData.
C7_PostbackStoresConversion ==
    [][(/\ HandlerStep("postback")
        /\ last'.dbOk
        /\ \E r \in events : r.isClick /\ r.eventId = last'.req.clickId)
          => /\ last'.out.status = 200
             /\ \E click \in events, t \in last'.out.scheduled :
                   /\ click.isClick /\ click.eventId = last'.req.clickId
                   /\ last'.out.scheduled = {t}
                   /\ HandedRows(t) = {t.row}
                   /\ t.row.isConversion
                   /\ t.row.clickId = last'.req.clickId
                   /\ t.row.sessionId = click.sessionId
                   /\ t.row.campaignId = click.campaignId
                   /\ t.row.payout = <<ParseFloat(last'.req.payout)>>
                   /\ t.row.conversionType =
                         (IF last'.req.conversionType = "" THEN "lead"
                          ELSE last'.req.conversionType)
                   /\ t.row.postbackData = PostbackQuery(last'.req)]_vars

\* C8: a postback whose click_id matches no stored row with isClick (an
\* unknown id, the id of an impression-only or of a conversion row) is
\* answered 404, schedules no conversion and leaves the event store as it
\* is.
C8_UnknownClickNotFound ==
    [][(/\ HandlerStep("postback")
        /\ last'.req.clickId # NoId
        /\ ~\E r \in events : r.isClick /\ r.eventId = last'.req.clickId)
          => /\ last'.out.status = 404
             /\ last'.out.scheduled = {}
             /\ tasks' = tasks
             /\ events' = events]_vars

\* C8 witness: a postback with the id of an impression-only row, answered
\* 404 while the store was reachable.
C8_Witness ==
    /\ Handled("postback")
    /\ last.dbOk
    /\ last.out.status = 404
    /\ \E r \in events : r.eventId = last.req.clickId /\ r.isImpression
    /\ ~\E r \in events : r.eventId = last.req.clickId /\ r.isClick

\* The last request carried a prefetch / prerender purpose.
SpeculativeHandled ==
    /\ last.kind = "request"
    /\ IsSpeculative(last.req.purpose)

\* C9 as stated: a prefetch / prerender request on any route, /postback
\* included, is answered 204 without body, without a rule lookup and
\* without an event.
C9_SpeculativeEverywhere ==
    SpeculativeHandled =>
        /\ last.out.status = 204
        /\ last.out.scheduled = {}
        /\ last.route = "main" => (last.out.kind = "empty" /\ ~last.out.looked)

\* C9 amended: a prefetch / prerender request to the catch-all route (main
\* dispatch, /click paths and /track.js) is answered 204 without body,
\* without a rule lookup and without an event.
C9_SpeculativeOnCatchAll ==
    (SpeculativeHandled /\ last.route = "main") =>
        /\ last.out.status = 204
        /\ last.out.kind = "empty"
        /\ ~last.out.looked
        /\ last.out.scheduled = {}
        /\ last.out.minted = 0

\* C9 witness: a prerender of a /click path of a host with a bundle,
\* answered 204.
C9_Witness ==
    /\ SpeculativeHandled
    /\ last.route = "main"
    /\ last.req.purpose = "prerender"
    /\ IsClickOutPath(last.req.path)
    /\ DOMAIN kv # {}
    /\ last.out.status = 204

\* C10: handling one request hands at most one event row to the store,
\* whichever path is taken.
C10_AtMostOneRow ==
    last.kind = "request" =>
        /\ Cardinality(last.out.scheduled) <= 1
        /\ Cardinality(LastRows) <= 1

\* C10 witness: the root-level click fallback with its one row.
C10_Witness ==
    /\ Handled("main")
    /\ last.out.looked
    /\ last.out.branch = "click-fallback"
    /\ Cardinality(LastRows) = 1

\* ------------------------------------------ event store specification

\* Event ids the writes of the store specification use.
StoreIds ==
    {GenerateUniqueId("imp", 1), GenerateUniqueId("click", 2), GenerateUniqueId("conv", 3)}

\* The rows handed to storeInPlanetScale in the store specification:
\* impressions, clicks and conversions that share their event ids.
StoreRows ==
    {EventData(id, Lit("0k3v9q1x"), "K1", TRUE, FALSE, {}, "hosted", NoText, "") :
        id \in StoreIds}
      \cup
    {EventData(id, Lit("0k3v9q1x"), "K2", FALSE, TRUE, {<<"fbclid", Lit("F")>>},
               "proxy", OfferUrl, "off1") : id \in StoreIds}
      \cup
    {ConversionData(id, GenerateUniqueId("click", 2), Lit("0k3v9q1x"), "K1", 0, "lead", {}) :
        id \in StoreIds}

InitStore ==
    /\ kv \in {[k \in {} |-> RedirectBundle]}
    /\ events = {}
    /\ tasks = {}
    /\ last = [kind |-> "none"]
    /\ idSeq = 0
    /\ destinationUrlCache = {}
    /\ d1Rows = Destinations
    /\ clockMs = 0

\* One call of storeInPlanetScale: the INSERT, or an exception (connection
\* or query) that is logged and swallowed.  last keeps the row, whether the
\* INSERT ran, and the store before the call.
StoreWrite(row, insertOk) ==
    /\ events' = IF insertOk THEN InsertEvent(events, row) ELSE events
    /\ last' = [kind |-> "write", row |-> row, ok |-> insertOk, before |-> events]
    /\ UNCHANGED <<kv, tasks, idSeq, destinationUrlCache, d1Rows, clockMs>>

NextStore == \E row \in StoreRows, insertOk \in BOOLEAN : StoreWrite(row, insertOk)

SpecStore == InitStore /\ [][NextStore]_vars

\* C11: an INSERT of an eventId the store already has leaves the store as it
\* was (the existing row keeps its fields), writing a row again changes
\* nothing, and no two rows of the store share an eventId.
C11_ConflictIsNoOp ==
    /\ \A r1, r2 \in events : r1.eventId = r2.eventId => r1 = r2
    /\ (/\ last.kind = "write"
        /\ last.ok
        /\ \E r \in last.before : r.eventId = last.row.eventId)
          => events = last.before
    /\ (last.kind = "write" /\ last.ok) =>
          /\ InsertEvent(events, last.row) = events
          /\ \E r \in events : r.eventId = last.row.eventId

\* C11 witness: a click row written under the eventId of a stored
\* impression; the impression is still the row of that id.
C11_Witness ==
    /\ last.kind = "write"
    /\ last.ok
    /\ last.row.isClick
    /\ \E r \in last.before : r.eventId = last.row.eventId /\ r.isImpression /\ ~r.isClick
    /\ \E r \in events : r.eventId = last.row.eventId /\ r.isImpression /\ ~r.isClick

\* C12: from an empty event store on, no stored row of any kind has an empty
\* or blank campaignId, and no such row is handed to the store.
C12_NoOrphanRows ==
    /\ \A r \in events : r.campaignId \notin {"", " "}
    /\ \A t \in tasks : \A row \in HandedRows(t) : row.campaignId \notin {"", " "}

\* C12 witness: the click-out of a bundle without campaign id scheduled its
\* write, the write has run, and the store has no row.
C12_Witness ==
    /\ ClickOutAnswered
    /\ ~HasCampaignId(LastBundle)
    /\ \E t \in last.out.scheduled : t.row.isClick /\ t.row.campaignId = ""
    /\ tasks = {}
    /\ events = {}

\* C12 witness of the conversion: a stored conversion carries the campaign
\* id of its click.
C12_WitnessConversion ==
    \E conv \in events, click \in events :
        /\ conv.isConversion
        /\ click.isClick
        /\ click.eventId = conv.clickId
        /\ conv.campaignId = click.campaignId

\* ---------------------------------------------- block filter specification

\* Deny lists, one kind each: addresses (a CIDR block, a pair of bounds, a
\* prefix with "*", one address), organisations, hostnames, cities,
\* countries, devices, browsers, operating systems.
BlockSets ==
    {[NoBlocks EXCEPT !.ips = <<{[kind |-> "cidr", base |-> <<10, 0, 0, 0>>, bits |-> 8],
                                 [kind |-> "hyphen", start |-> <<100, 64, 2, 0>>,
                                  end |-> <<100, 64, 2, 255>>],
                                 [kind |-> "wildcard", prefix |-> <<100, 65>>],
                                 [kind |-> "exact", ip |-> <<100, 66, 0, 1>>]}>>],
     [NoBlocks EXCEPT !.orgs = <<{"hetzner", "ovh"}>>],
     [NoBlocks EXCEPT !.hostnames = <<{"h"}>>],
     [NoBlocks EXCEPT !.cities = <<{"ashburn"}>>],
     [NoBlocks EXCEPT !.countries = <<{"ca"}>>],
     [NoBlocks EXCEPT !.devices = <<{"mobile"}>>],
     [NoBlocks EXCEPT !.browsers = <<{"mobile safari"}>>],
     [NoBlocks EXCEPT !.oses = <<{"ios", "*"}>>]}

\* The defaults of the block filter specification, by mode.
BlockDefaults ==
    {<<Txt("safe"), "hosted">>, <<Url("https://safe.example/", {}), "proxy">>,
     <<Url("https://safe.example/r", {<<"imp", Lit("{{impression.id}}")>>}), "redirect">>}

\* A campaign whose one rule matches every visitor, with a deny list.
BlockingBundle(blocks, defaultFolder, mode) ==
    Bundle("K5", <<Rule(NoFlags, Txt("lpA"), NoText, NoText, OfferUrl, <<>>)>>,
           defaultFolder, mode, "", <<blocks>>)

BlockKVConfigs ==
    {[k \in {RootKey} |-> BlockingBundle(b, Txt("safe"), "hosted")] : b \in BlockSets}
      \cup
    {[k \in {RootKey} |-> BlockingBundle([NoBlocks EXCEPT !.cities = <<{"ashburn"}>>],
                                         d[1], d[2])] : d \in BlockDefaults}

\* The visitors of the block filter specification: one no list denies and
\* others that differ from it in one value.
BlockVisitors ==
    LET base == Request("", <<"/">>, {}, <<>>, "US", "chromeMac")
    IN  {base,
         [base EXCEPT !.ip = <<10, 20, 30, 40>>],
         [base EXCEPT !.ip = <<100, 64, 2, 9>>],
         [base EXCEPT !.ip = <<100, 65, 0, 3>>],
         [base EXCEPT !.ip = <<100, 66, 0, 1>>],
         [base EXCEPT !.ip = NoIp],
         [base EXCEPT !.org = "Hetzner"],
         [base EXCEPT !.city = "Ashburn"],
         [base EXCEPT !.country = "CA"],
         [base EXCEPT !.ua = "safariIphone"]}

\* Their requests: the home page, a click-out, a stylesheet, the embed.
BlockRequests ==
    {[v EXCEPT !.path = p] : v \in BlockVisitors, p \in {<<"/">>, <<"/", "click">>}}
      \cup
    {[v EXCEPT !.path = <<"/", "s", ".css">>] : v \in {v \in BlockVisitors : v.city = "Ashburn"}}
      \cup
    {[v EXCEPT !.path = TrackJs,
               !.url = <<[valid |-> TRUE, host |-> "h", path |-> <<"/">>, query |-> {}]>>] :
        v \in {v \in BlockVisitors : v.city = "Ashburn"}}

InitBlock ==
    /\ kv \in BlockKVConfigs
    /\ events = {}
    /\ tasks = {}
    /\ last = [kind |-> "none"]
    /\ idSeq = 0
    /\ destinationUrlCache = {}
    /\ d1Rows = Destinations
    /\ clockMs = 0

NextBlock ==
    \/ \E req \in BlockRequests : \E env \in Envs(req) : Dispatch(req, env)
    \/ \E task \in tasks, insertOk \in BOOLEAN : RunTask(task, insertOk)

SpecBlock == InitBlock /\ [][NextBlock]_vars

\* Some entry of some list of the BlockSet matches the request's value.
MatchesBlockSet(data, blocks) ==
    \/ \E l \in {<<blocks.orgs, data.org>>, <<blocks.hostnames, data.headers.host>>,
                 <<blocks.cities, data.geo.city>>, <<blocks.countries, data.geo.country>>,
                 <<blocks.devices, data.userAgent.device>>,
                 <<blocks.browsers, data.userAgent.browser>>,
                 <<blocks.oses, data.userAgent.os>>} :
          /\ l[1] # <<>>
          /\ \E pat \in l[1][1] : MatchWildcard(l[2], pat)
    \/ /\ blocks.ips # <<>>
       /\ data.ip # NoIp
       /\ \E range \in blocks.ips[1] : IsIpInRange(data.ip, range)

\* applyKVRule handled the last request with a bundle whose BlockSet has an
\* entry matching it.
RequestBlocked ==
    /\ Handled("main")
    /\ last.out.looked
    /\ last.out.branch # "no-rule"
    /\ LastBundle.blocks # <<>>
    /\ MatchesBlockSet(LastData, LastBundle.blocks[1])

\* The kind of response that serves the bundle's default in its mode.
DefaultKind(bundle) ==
    CASE bundle.defaultFolderMode = "redirect" -> "redirect"
      [] bundle.defaultFolderMode = "proxy" -> "proxy"
      [] bundle.defaultFolderMode = "hosted" -> "file"
      [] OTHER -> IF IsUrl(bundle.defaultFolder) THEN "proxy" ELSE "file"

\* C13: a request matching any entry of the bundle's BlockSet is answered
\* by the block (or bot) branch, before any rule is evaluated or selected:
\* the bundle's default in its configured mode, and no event.
C13_BlockedServedDefault ==
    RequestBlocked =>
        /\ last.out.branch \in {"block", "bot"}
        /\ last.out.kind = DefaultKind(LastBundle)
        /\ last.out.kind = "redirect" =>
              /\ last.out.status = 302
              /\ last.out.location.body = LastBundle.defaultFolder.body
        /\ last.out.scheduled = {}

\* C13 witness: a click-out from a denied city, answered by the 302 to the
\* bundle's default although the bundle's rule matches every visitor.
C13_Witness ==
    /\ RequestBlocked
    /\ LastBundle.blocks[1].cities # <<>>
    /\ IsClickOutPath(LastData.path)
    /\ RuleMatches(LastData, LastBundle.rules[1], FALSE)
    /\ last.out.branch = "block"
    /\ last.out.kind = "redirect"

\* The transport metadata or the User-Agent of a request marks it as a bot:
\* botScore < 30, trust (threat) score > 50, a verified bot, a bot UA.
BotSignalled(req) ==
    \/ req.cf.botScore # <<>> /\ req.cf.botScore[1] < 30
    \/ req.cf.clientTrustScore # <<>> /\ req.cf.clientTrustScore[1] > 50
    \/ req.cf.verifiedBot
    \/ req.cf.botUA

\* C14: a request through the main dispatch route with a bot signal, page-like
\* or asset, is served the bundle's default by the bot branch; no rule of
\* the bundle is matched or executed and no event is emitted.
C14_BotServedDefault ==
    (Handled("main") /\ last.out.looked /\ last.out.branch # "no-rule"
        /\ BotSignalled(last.req)) =>
            /\ last.out.branch = "bot"
            /\ last.out.scheduled = {}

\* ----------------------------------------------- rule matching specification

\* The values a predicate of a FlagSet takes in the matching specification,
\* as <<field, expected>>: some that the model's visitors satisfy, some
\* that they do not, lists and empty lists.
FlagOptions ==
    {<<"params", {<<"fbclid", Lit("F")>>}>>, <<"params", {}>>,
     <<"params", {<<"fbclid", Lit("F")>>, <<"utm", Lit("X")>>}>>,
     <<"country", {"US"}>>, <<"country", {"CA", "US"}>>, <<"country", {"CA"}>>,
     <<"country", {}>>,
     <<"region", {"TX"}>>, <<"region", {"ON"}>>,
     <<"city", {"Austin"}>>, <<"city", {"austin"}>>,
     <<"continent", {"NA"}>>, <<"continent", {"EU"}>>,
     <<"asn", {7922}>>, <<"asn", {13335, 16509}>>,
     <<"colo", {"DFW"}>>, <<"colo", {"IAD"}>>,
     <<"ip", {[kind |-> "cidr", base |-> <<100, 64, 0, 0>>, bits |-> 16]}>>,
     <<"ip", {[kind |-> "exact", ip |-> <<10, 0, 0, 1>>],
              [kind |-> "hyphen", start |-> <<100, 64, 1, 0>>, end |-> <<100, 64, 1, 7>>]}>>,
     <<"ip", {[kind |-> "wildcard", prefix |-> <<10>>]}>>,
     <<"org", {"comcast"}>>, <<"org", {"hetzner", "*"}>>, <<"org", {"hetzner"}>>,
     <<"language", {"en"}>>, <<"language", {"EN"}>>, <<"language", {"fr", "en"}>>,
     <<"time", [start |-> [hour |-> 9, minute |-> 30], end |-> [hour |-> 17, minute |-> 0]]>>,
     <<"time", [start |-> [hour |-> 8, minute |-> 0], end |-> [hour |-> 9, minute |-> 30]]>>,
     <<"time", [start |-> [hour |-> 22, minute |-> 0], end |-> [hour |-> 6, minute |-> 0]]>>,
     <<"device", {"Desktop"}>>, <<"device", {"Mobile", "Tablet"}>>,
     <<"browser", {"Chrome"}>>, <<"browser", {"Firefox"}>>,
     <<"os", {"mac"}>>, <<"os", {"Windows", "OS"}>>, <<"os", {"macos"}>>,
     <<"brand", {"Apple"}>>, <<"brand", {"Samsung"}>>}

\* FlagSets with no, one or two predicates.
FlagSets ==
    {NoFlags}
      \cup {[NoFlags EXCEPT ![o[1]] = <<o[2]>>] : o \in FlagOptions}
      \cup {[NoFlags EXCEPT ![oq[1][1]] = <<oq[1][2]>>, ![oq[2][1]] = <<oq[2][2]>>] :
               oq \in {oq \in FlagOptions \X FlagOptions : oq[1][1] # oq[2][1]}}

\* The requests of the matching specification: a page and a stylesheet with
\* and without the fbclid parameter, a visitor without address,
\* organisation and Accept-Language, a Canadian iPhone, other times of day.
MatchRequests ==
    LET base == Request("", <<"/">>, {<<"fbclid", Lit("F")>>}, <<>>, "US", "chromeMac")
    IN  {base,
         [base EXCEPT !.query = {}],
         [base EXCEPT !.path = <<"/", "s", ".css">>],
         [base EXCEPT !.ip = NoIp, !.org = "", !.acceptLanguage = <<>>],
         [base EXCEPT !.country = "CA", !.ua = "safariIphone", !.region = "ON"],
         [base EXCEPT !.now = 569],
         [base EXCEPT !.now = 1020]}

\* The inputs of one call of checkSingleRule.
InitMatch ==
    /\ kv \in {[k \in {} |-> RedirectBundle]}
    /\ events = {}
    /\ tasks = {}
    /\ last \in {[kind |-> "input", req |-> req, flags |-> flags] :
                    req \in MatchRequests, flags \in FlagSets}
    /\ idSeq = 0
    /\ destinationUrlCache = {}
    /\ d1Rows = Destinations
    /\ clockMs = 0

\* The call of checkSingleRule on them.
CheckRule ==
    /\ last.kind = "input"
    /\ last' = [kind |-> "check", req |-> last.req, flags |-> last.flags,
                isAssetRequest |-> ~IsPageLike(last.req.path),
                matched |-> CheckSingleRule(RequestData(last.req, 1), last.flags,
                                            ~IsPageLike(last.req.path))]
    /\ UNCHANGED <<kv, events, tasks, idSeq, destinationUrlCache, d1Rows, clockMs>>

NextMatch == CheckRule

SpecMatch == InitMatch /\ [][NextMatch]_vars

\* The value of the context that a predicate compared by equality looks at.
ContextValue(field, data) ==
    CASE field = "country" -> data.geo.country
      [] field = "region" -> data.geo.regionCode
      [] field = "city" -> data.geo.city
      [] field = "continent" -> data.geo.continent
      [] field = "asn" -> data.cf.asn
      [] field = "colo" -> data.cf.colo
      [] field = "device" -> data.userAgent.device
      [] field = "browser" -> data.userAgent.browser
      [] field = "brand" -> data.userAgent.brand
      [] field = "language" -> PrimaryLang(data.headers.acceptLanguage)

\* One predicate of a FlagSet matches the context: a list matches when any
\* of its elements does; params needs a page request and every entry in the
\* query.
FieldMatches(field, expected, data, isAssetRequest) ==
    CASE field = "params" -> ~isAssetRequest /\ expected \subseteq data.query
      [] field = "ip" -> data.ip # NoIp /\ \E r \in expected : IsIpInRange(data.ip, r)
      [] field = "org" -> \E pat \in expected : MatchWildcard(data.org, pat)
      [] field = "os" -> \E e \in expected : Includes(data.userAgent.os, e)
      [] field = "time" ->
            /\ TimeInMinutes(expected.start) <= data.now
            /\ data.now < TimeInMinutes(expected.end)
      [] OTHER -> \E e \in expected : e = ContextValue(field, data)

\* C15: checkSingleRule answers matched = true exactly when every predicate
\* present in the FlagSet matches the context; a list matches by any of its
\* elements, an absent predicate constrains nothing, and a params predicate
\* is false on an asset request whatever the query carries.
C15_MatchedIffEveryFieldMatches ==
    last.kind = "check" =>
        (last.matched <=>
            \A field \in DOMAIN last.flags :
                last.flags[field] # <<>> =>
                    FieldMatches(field, last.flags[field][1],
                                 RequestData(last.req, 1), last.isAssetRequest))

\* C15 witness: a stylesheet request whose query carries the value the
\* params predicate asks for and whose country is in the list, not matched.
C15_Witness ==
    /\ last.kind = "check"
    /\ last.isAssetRequest
    /\ last.flags.params # <<>>
    /\ last.flags.params[1] # {}
    /\ last.flags.params[1] \subseteq last.req.query
    /\ last.flags.country # <<>>
    /\ Cardinality(last.flags.country[1]) = 2
    /\ last.req.country \in last.flags.country[1]
    /\ ~last.matched

\* -------------------------------------------------- rule groups specification

\* The FlagSets of the groups specification.
GroupFlagSets ==
    {NoFlags,
     [NoFlags EXCEPT !.country = <<{"US"}>>],
     [NoFlags EXCEPT !.country = <<{"CA"}>>],
     [NoFlags EXCEPT !.device = <<{"Mobile"}>>],
     [NoFlags EXCEPT !.params = <<{<<"fbclid", Lit("F")>>}>>, !.country = <<{"US", "CA"}>>]}

\* Rules with flags, with no, one or two groups, with and without a click
\* target.
GroupRules ==
    {[Rule(flags, Txt("lpA"), NoText, NoText, clickUrl, <<>>) EXCEPT !.groups = groups] :
        flags \in GroupFlagSets,
        groups \in {<<>>} \cup {<<g>> : g \in GroupFlagSets}
                      \cup {<<g[1], g[2]>> : g \in GroupFlagSets \X GroupFlagSets},
        clickUrl \in {NoText, OfferUrl}}

\* The requests of the groups specification.
GroupRequests ==
    {Request("", <<"/">>, {<<"fbclid", Lit("F")>>}, <<>>, "US", "chromeMac"),
     Request("", <<"/", "click">>, {}, <<>>, "CA", "chromeMac"),
     Request("", <<"/", "s", ".css">>, {<<"fbclid", Lit("F")>>}, <<>>, "US", "chromeMac"),
     Request("", <<"/", "click">>, {}, <<>>, "US", "safariIphone")}

\* A request and a bundle with one rule.
InitGroups ==
    /\ kv \in {[k \in {} |-> RedirectBundle]}
    /\ events = {}
    /\ tasks = {}
    /\ last \in {[kind |-> "input", req |-> req, ruleSet |-> ruleSet] :
                    req \in GroupRequests, ruleSet \in GroupRules}
    /\ idSeq = 0
    /\ destinationUrlCache = {}
    /\ d1Rows = Destinations
    /\ clockMs = 0

\* The two matching loops of applyKVRule on them: whether the rule is among
\* matchingRules, and among clickMatchingRules.
MatchRule ==
    /\ last.kind = "input"
    /\ last' = [kind |-> "rules", req |-> last.req, ruleSet |-> last.ruleSet,
                regular |-> Len(MatchingRules(RequestData(last.req, 1),
                                              Bundle("K1", <<last.ruleSet>>, Txt("safe"), "", "", <<>>),
                                              ~IsPageLike(last.req.path))) = 1,
                click |-> Len(ClickMatchingRules(RequestData(last.req, 1),
                                                 Bundle("K1", <<last.ruleSet>>, Txt("safe"), "", "", <<>>),
                                                 ~IsPageLike(last.req.path))) = 1]
    /\ UNCHANGED <<kv, events, tasks, idSeq, destinationUrlCache, d1Rows, clockMs>>

NextGroups == MatchRule

SpecGroups == InitGroups /\ [][NextGroups]_vars

\* The FlagSet matches the request of the last matching.
LastFlagsMatch(flags) ==
    CheckSingleRule(RequestData(last.req, 1), flags, ~IsPageLike(last.req.path))

\* What decides whether the rule of the last matching matches: one of its
\* groups when it has any, its flags otherwise.
GroupsOrFlagsMatch ==
    IF last.ruleSet.groups # <<>>
    THEN \E i \in 1..Len(last.ruleSet.groups) : LastFlagsMatch(last.ruleSet.groups[i])
    ELSE LastFlagsMatch(last.ruleSet.flags)

\* C16: a rule with a non-empty groups list matches exactly when one of its
\* groups matches, whatever its flags; a rule without groups matches exactly
\* when its flags match; the same in click-out matching, which keeps the
\* matching rules that carry a click target.
C16_GroupsOverrideFlags ==
    last.kind = "rules" =>
        /\ last.regular <=> GroupsOrFlagsMatch
        /\ last.click <=> (GroupsOrFlagsMatch /\ Truthy(last.ruleSet.clickUrl))

\* C16 witness: a rule whose flags do not match the request and whose second
\* group does, matched in both loops.
C16_Witness ==
    /\ last.kind = "rules"
    /\ Len(last.ruleSet.groups) = 2
    /\ ~LastFlagsMatch(last.ruleSet.flags)
    /\ ~LastFlagsMatch(last.ruleSet.groups[1])
    /\ LastFlagsMatch(last.ruleSet.groups[2])
    /\ last.regular
    /\ last.click

\* ------------------------------------------------ weighted rule specification

\* The largest number of matching rules in the weighted rule specification.
MaxRules == 3

\* The weights of a rule there; 0 stands for a rule without weight.
RuleWeightChoices == {0, 1, 2, 3}

\* The landing pages that tell the rules of a bundle apart.
RuleFolders == <<"lp1", "lp2", "lp3", "lp4">>

\* Bundles of one to MaxRules rules that match every request.
WeightedBundles ==
    {Bundle("K1",
            [i \in 1..n |->
                [Rule(NoFlags, Txt(RuleFolders[i]), NoText, NoText, NoText, <<>>)
                    EXCEPT !.weight = ws[i]]],
            Txt("safe"), "", "", <<>>) :
        n \in 1..MaxRules, ws \in [1..MaxRules -> RuleWeightChoices]}

\* A bundle and a value of Math.random().
InitWeighted ==
    /\ kv \in {[k \in {} |-> RedirectBundle]}
    /\ events = {}
    /\ tasks = {}
    /\ last \in {[kind |-> "input", bundle |-> b, k |-> k] :
                    b \in WeightedBundles, k \in 0..(RandDenom - 1)}
    /\ idSeq = 0
    /\ destinationUrlCache = {}
    /\ d1Rows = Destinations
    /\ clockMs = 0

\* The weighted selection among the matching rules of the bundle.
SelectRule ==
    /\ last.kind = "input"
    /\ last' = [kind |-> "selected", bundle |-> last.bundle, k |-> last.k,
                selected |-> SelectedRule(RequestData(Request("", <<"/">>, {}, <<>>, "US", "chromeMac"), 1),
                                          last.bundle, FALSE, [rRule |-> last.k])]
    /\ UNCHANGED <<kv, events, tasks, idSeq, destinationUrlCache, d1Rows, clockMs>>

NextWeighted == SelectRule

SpecWeighted == InitWeighted /\ [][NextWeighted]_vars

\* The weight of rule i of the last selection, a missing one as 100, and
\* the sum of the weights of the first i rules.
WeightOf(i) == IF last.bundle.rules[i].weight = 0 THEN 100 ELSE last.bundle.rules[i].weight

RECURSIVE CumWeight(_)
CumWeight(i) == IF i = 0 THEN 0 ELSE CumWeight(i - 1) + WeightOf(i)

\* The draw r = (k / RandDenom) * total lies in the interval of rule i:
\* cumulative weight before i < r <= cumulative weight through i.
DrawInInterval(i) ==
    LET total == CumWeight(Len(last.bundle.rules))
    IN  /\ CumWeight(i - 1) * RandDenom < last.k * total
        /\ last.k * total <= CumWeight(i) * RandDenom

\* Rule i is the one selected.
IsSelected(i) == last.selected = <<last.bundle.rules[i]>>

\* C17 as stated: exactly one rule is picked, and rule i is picked exactly
\* when the cumulative weight before i < r <= the cumulative weight through
\* i.
C17_PickedIffInInterval ==
    last.kind = "selected" =>
        /\ \E i \in 1..Len(last.bundle.rules) : IsSelected(i)
        /\ \A i \in 1..Len(last.bundle.rules) : IsSelected(i) <=> DrawInInterval(i)

\* C17 amended: exactly one rule is picked; rule i is picked exactly when the
\* cumulative weight before i < r <= the cumulative weight through i, or
\* when r = 0 and i is the first rule; a draw on the boundary between two
\* rules goes to the earlier one.
C17_PickedIffInIntervalOrZero ==
    last.kind = "selected" =>
        /\ \E i \in 1..Len(last.bundle.rules) : IsSelected(i)
        /\ \A i \in 1..Len(last.bundle.rules) :
              IsSelected(i) <=> (DrawInInterval(i) \/ (last.k = 0 /\ i = 1))

\* C17 witness: a draw on the boundary between the first two of several
\* rules, which selects the first.
C17_Witness ==
    /\ last.kind = "selected"
    /\ Len(last.bundle.rules) > 1
    /\ last.k > 0
    /\ last.k * CumWeight(Len(last.bundle.rules)) = CumWeight(1) * RandDenom
    /\ IsSelected(1)

\* The key under which getKVRule found the bundle of the last request, and
\* the path of that key.
LastRuleKey == GetKVKey(kv, LastData.domain, LastData.path)[1]

LastRulePath == IF Len(LastRuleKey) > 1 THEN Tail(LastRuleKey) ELSE <<"/">>

\* The last request came to a redirect action, direct or embed, on a path
\* that differs from the path of the rule key once trailing slashes are
\* removed.
RedirectPathMismatch ==
    /\ Handled("main")
    /\ last.out.looked
    /\ last.out.branch \in {"redirect", "embed-redirect", "path-mismatch"}
    /\ StripTrailingSlash(LastRulePath) # StripTrailingSlash(LastData.path)

\* C18: a redirect action, direct or embed, on a request path that differs
\* from the path of the resolved rule key is answered by the 404 page; no
\* redirect is issued and no event is emitted.
C18_RedirectPathMismatchNotFound ==
    RedirectPathMismatch =>
        /\ last.out.kind = "notfound"
        /\ last.out.scheduled = {}

\* ------------------------------------------------- macro engine specification

\* The escaped tokens of the model's templates and the literal each stands
\* for: {{!x}} is restored as `{{${macroName}}}`.
EscapedOf ==
    [t \in {"{{!click.id}}", "{{!promo}}"} |->
        CASE t = "{{!click.id}}" -> "{{click.id}}"
          [] t = "{{!promo}}" -> "{{promo}}"]

\* Step 1 of replaceMacros: each {{!x}} becomes a placeholder numbered by
\* the size of escapedPlaceholders, which remembers the literal {{x}}.
RECURSIVE ProtectEscaped(_, _)
ProtectEscaped(content, size) ==
    IF content = <<>> THEN [content |-> <<>>, escapedPlaceholders |-> <<>>]
    ELSE IF Head(content).n = 0 /\ Head(content).pfx \in DOMAIN EscapedOf
    THEN LET rest == ProtectEscaped(Tail(content), size + 1)
         IN  [content |-> <<[pfx |-> "__ESC_", n |-> size + 1]>> \o rest.content,
              escapedPlaceholders |->
                  <<Lit(EscapedOf[Head(content).pfx])>> \o rest.escapedPlaceholders]
    ELSE LET rest == ProtectEscaped(Tail(content), size)
         IN  [content |-> <<Head(content)>> \o rest.content,
              escapedPlaceholders |-> rest.escapedPlaceholders]

\* replaceMacros on a template given as its tokens (texts, {{x}}, {{!x}}):
\* protect the escaped tokens, replace each {{x}} that has a variable,
\* restore the placeholders to the literal {{x}}.
ReplaceMacros(html, variables) ==
    LET protected == ProtectEscaped(html, 0)
        replaced == [i \in 1..Len(protected.content) |->
                        IF /\ protected.content[i].n = 0
                           /\ protected.content[i].pfx \in DOMAIN variables
                        THEN variables[protected.content[i].pfx]
                        ELSE protected.content[i]]
    IN  IF DOMAIN variables = {} THEN html
        ELSE [i \in 1..Len(replaced) |->
                 IF replaced[i].pfx = "__ESC_"
                 THEN protected.escapedPlaceholders[replaced[i].n]
                 ELSE replaced[i]]

\* The tokens of the templates and destination URLs of the macro engine
\* specification.
MacroTokens ==
    {Lit("{{click.id}}"), Lit("{{!click.id}}"), Lit("{{promo}}"), Lit("{{!promo}}"),
     Lit("text")}

\* The longest template.
MaxTokens == 2

\* Templates of one to MaxTokens tokens.
Templates == UNION {[1..n -> MacroTokens] : n \in 1..MaxTokens}

\* The variables populateMacros hands to replaceMacros for a page: click.id
\* of a page view is '', promo is a variable of some bundles.
PageVariables(withPromo) ==
    [m \in {"{{click.id}}"} \cup (IF withPromo THEN {"{{promo}}"} ELSE {}) |->
        IF m = "{{promo}}" THEN Lit("SAVE10") ELSE Lit("")]

\* The MacroContext of a click-out.
ClickContext ==
    [NoContext EXCEPT !.clickId = GenerateUniqueId("click", 1),
                      !.sessionId = Lit("0k3v9q1x")]

\* A template and the variables of the bundle.
InitMacro ==
    /\ kv \in {[k \in {} |-> RedirectBundle]}
    /\ events = {}
    /\ tasks = {}
    /\ last \in {[kind |-> "input", template |-> t, withPromo |-> w] :
                    t \in Templates, w \in BOOLEAN}
    /\ idSeq = 0
    /\ destinationUrlCache = {}
    /\ d1Rows = Destinations
    /\ clockMs = 0

\* replaceMacros on the template as a page.
ExpandHtml ==
    /\ last.kind = "input"
    /\ last' = [kind |-> "html", template |-> last.template,
                withPromo |-> last.withPromo,
                out |-> ReplaceMacros(last.template, PageVariables(last.withPromo))]
    /\ UNCHANGED <<kv, events, tasks, idSeq, destinationUrlCache, d1Rows, clockMs>>

\* replaceMacrosInUrl on a destination URL whose i-th parameter has the
\* i-th token of the template as its value.
ExpandUrl ==
    /\ last.kind = "input"
    /\ last' = [kind |-> "url", template |-> last.template,
                withPromo |-> last.withPromo,
                out |-> ReplaceMacrosInUrl(
                            Url("https://offer.example/o",
                                {<<i, last.template[i]>> : i \in 1..Len(last.template)}),
                            ClickContext).params]
    /\ UNCHANGED <<kv, events, tasks, idSeq, destinationUrlCache, d1Rows, clockMs>>

NextMacro == ExpandHtml \/ ExpandUrl

SpecMacro == InitMacro /\ [][NextMacro]_vars

\* The i-th token of the last expansion's template is an escaped one.
IsEscaped(i) == last.template[i].pfx \in DOMAIN EscapedOf

\* What the last expansion made of the i-th token.
Expanded(i) ==
    IF last.kind = "html" THEN last.out[i]
    ELSE (CHOOSE p \in last.out : p[1] = i)[2]

\* C19 for pages: replaceMacros gives the literal {{x}} for every escaped
\* token {{!x}}, whether or not x has a value.
C19_EscapedSurvivesInHtml ==
    last.kind = "html" =>
        \A i \in 1..Len(last.template) :
            IsEscaped(i) => Expanded(i) = Lit(EscapedOf[last.template[i].pfx])

\* C19: in every macro expansion, of pages (replaceMacros) and of URLs
\* (replaceMacrosInUrl), an escaped token {{!x}} appears in the output as
\* the literal {{x}} and is never replaced by the value of x.
C19_EscapedSurvives ==
    last.kind \in {"html", "url"} =>
        \A i \in 1..Len(last.template) :
            IsEscaped(i) => Expanded(i) = Lit(EscapedOf[last.template[i].pfx])

\* --------------------------------------------------- session id specification

\* Strings are sequences of char codes here.  "cf-", "x-forwarded-for",
\* "x-real-ip": the proxy headers the fingerprint leaves out.
CfPrefix == <<99, 102, 45>>

XForwardedFor == <<120, 45, 102, 111, 114, 119, 97, 114, 100, 101, 100, 45, 102, 111, 114>>

XRealIp == <<120, 45, 114, 101, 97, 108, 45, 105, 112>>

\* String.prototype.toLowerCase on ASCII
ToLowerCase(s) == [i \in 1..Len(s) |-> IF s[i] >= 65 /\ s[i] <= 90 THEN s[i] + 32 ELSE s[i]]

\* String.prototype.startsWith
StartsWith(s, prefix) == Len(s) >= Len(prefix) /\ SubSeq(s, 1, Len(prefix)) = prefix

\* Array.prototype.join with a one-character separator
RECURSIVE Join(_, _)
Join(parts, sep) ==
    IF parts = <<>> THEN <<>>
    ELSE IF Len(parts) = 1 THEN parts[1]
    ELSE parts[1] \o <<sep>> \o Join(Tail(parts), sep)

\* .slice(0, 15)
HeaderSliceEnd == 15

\* getHeaderOrderFingerprint: the first 15 header names, lower-cased, those
\* of proxy headers removed, joined by ",".
GetHeaderOrderFingerprint(headerNames) ==
    LET first == SubSeq(headerNames, 1,
                        IF Len(headerNames) < HeaderSliceEnd THEN Len(headerNames)
                        ELSE HeaderSliceEnd)
        lower == [i \in 1..Len(first) |-> ToLowerCase(first[i])]
        kept == SelectSeq(lower, LAMBDA h : /\ ~StartsWith(h, CfPrefix)
                                            /\ h # XForwardedFor
                                            /\ h # XRealIp)
    IN  Join(kept, 44)

\* a ^ b on the lowest n bits
RECURSIVE XorBits(_, _, _)
XorBits(a, b, n) ==
    IF n = 0 THEN 0
    ELSE (((a % 2) + (b % 2)) % 2) + 2 * XorBits(a \div 2, b \div 2, n - 1)

\* One round of FNV-1a on a 32-bit hash kept as its two 16-bit halves:
\* hash ^= code; hash = Math.imul(hash, 16777619), where 16777619 is
\* 2^24 + 403.
FnvRound(hash, code) ==
    LET lo == (hash.lo - (hash.lo % 256)) + XorBits(hash.lo % 256, code, 8)
    IN  [lo |-> (lo * 403) % 65536,
         hi |-> ((hash.hi * 403) + ((lo * 403) \div 65536) + ((lo % 256) * 256)) % 65536]

\* The hash loop of generateSessionId (the test on next has each round
\* computed before the following one).
RECURSIVE Fnv1a(_, _)
Fnv1a(s, hash) ==
    IF s = <<>> THEN hash
    ELSE LET next == FnvRound(hash, Head(s))
         IN  IF next.lo = next.lo THEN Fnv1a(Tail(s), next) ELSE next

\* The FNV offset basis 2166136261 as its two 16-bit halves.
FnvOffsetBasis == [hi |-> 33052, lo |-> 40389]

\* generateSessionId on a request with the given header names, in order:
\* the hash of the components joined by "|".  Its base-36 rendering is one
\* to one on the 32-bit hash, which stands for the id here.  The other
\* components are the same for all requests of the specification: the
\* address 1.2.3.4, no cf metadata, User-Agent "UA", none of the content
\* negotiation and client hint headers.
FingerprintSessionId(headerNames) ==
    Fnv1a(Join(<<<<49, 46, 50, 46, 51, 46, 52>>, <<>>, <<>>, <<85, 65>>,
                 GetHeaderOrderFingerprint(headerNames),
                 <<>>, <<>>, <<>>, <<>>, <<>>, <<>>, <<>>, <<>>>>, 124),
          FnvOffsetBasis)

\* The largest number of headers a browser sends in the specification.
MaxHeaders == 16

\* The name of the i-th header of the browser: "ha", "hb", ...
BrowserHeader(i) == <<104, 96 + i>>

\* The headers a proxy adds: cf-ray, CF-Visitor, x-forwarded-for, x-real-ip.
ProxyHeaders ==
    {<<99, 102, 45, 114, 97, 121>>, <<67, 70, 45, 86, 105, 115, 105, 116, 111, 114>>,
     XForwardedFor, XRealIp}

\* A request with n browser headers and one more header at position pos.
InitSession ==
    /\ kv \in {[k \in {} |-> RedirectBundle]}
    /\ events = {}
    /\ tasks = {}
    /\ last \in {[kind |-> "input", n |-> n, pos |-> pos, extra |-> extra] :
                    n \in (MaxHeaders - 4)..MaxHeaders, pos \in 1..(MaxHeaders + 1),
                    extra \in ProxyHeaders}
    /\ idSeq = 0
    /\ destinationUrlCache = {}
    /\ d1Rows = Destinations
    /\ clockMs = 0

\* generateSessionId on the request without and with the additional header.
SessionIds ==
    /\ last.kind = "input"
    /\ last.pos <= last.n + 1
    /\ last' = [kind |-> "sessions", n |-> last.n, pos |-> last.pos, extra |-> last.extra,
                plain |-> FingerprintSessionId([i \in 1..last.n |-> BrowserHeader(i)]),
                withProxy |->
                    FingerprintSessionId(
                        [i \in 1..(last.n + 1) |->
                            IF i < last.pos THEN BrowserHeader(i)
                            ELSE IF i = last.pos THEN last.extra
                            ELSE BrowserHeader(i - 1)])]
    /\ UNCHANGED <<kv, events, tasks, idSeq, destinationUrlCache, d1Rows, clockMs>>

NextSession == SessionIds

SpecSession == InitSession /\ [][NextSession]_vars

\* C20: two requests that are identical except that one carries an additional
\* cf-*, x-forwarded-for or x-real-ip header, at any position and for any
\* number of headers, get the same sessionId.
C20_ProxyHeadersIgnored ==
    last.kind = "sessions" => last.plain = last.withProxy

\* The same for requests of at most 15 headers, the additional one included.
C20_ProxyHeadersIgnoredInSlice ==
    (last.kind = "sessions" /\ last.n + 1 <= HeaderSliceEnd) => last.plain = last.withProxy

\* ------------------------------------------ trailing-slash specification

\* Keys of the trailing-slash specification: the canonical forms of two
\* levels with and without the trailing slash, and a key with a doubled
\* slash.
SlashKeys ==
    { <<"h">>, <<"h", "/">>,
      <<"h", "/", "a">>, <<"h", "/", "a", "/">>, <<"h", "/", "a", "/", "/">>,
      <<"h", "/", "a", "/", "b">>, <<"h", "/", "a", "/", "b", "/">> }

InitSlash ==
    /\ kv \in UNION {[ks -> {"bundle"}] : ks \in SUBSET SlashKeys}
    /\ events = {}
    /\ tasks = {}
    /\ last = [kind |-> "none"]
    /\ idSeq = 0
    /\ destinationUrlCache = {}
    /\ d1Rows = Destinations
    /\ clockMs = 0

\* Two calls of getKVRule against the same KV content: one for path, one
\* for path with a slash appended.
ResolveBoth(domain, path) ==
    /\ last.kind = "none"
    /\ last' = [kind |-> "resolveBoth", domain |-> domain, path |-> path,
                found |-> GetKVKey(kv, domain, path),
                foundSlash |-> GetKVKey(kv, domain, path \o <<"/">>)]
    /\ UNCHANGED <<kv, events, tasks, idSeq, destinationUrlCache, d1Rows, clockMs>>

NextSlash ==
    \E d \in ResolveHosts, p \in ResolvePaths \ {<<"/">>} : ResolveBoth(d, p)

SpecSlash == InitSlash /\ [][NextSlash]_vars

\* The key {host}{p}/ is stored, next to {host}{p} or for a p that already
\* ends with a slash.
SlashFormStoredApart ==
    /\ KVHas(kv, KeyOf(last.domain, last.path \o <<"/">>))
    /\ \/ KVHas(kv, KeyOf(last.domain, last.path))
       \/ EndsWithSlash(last.path)

\* C21 as stated: for every KV content and every request path p other than
\* "/", p and p with a trailing slash appended resolve to the same KV key.
C21_SlashSameBundle ==
    last.kind = "resolveBoth" => last.found = last.foundSlash

\* C21, amended: p and p with a trailing slash appended resolve to the same
\* KV key, except when {host}{p}/ is stored and either {host}{p} is stored
\* too or p already ends with a slash; then p/ resolves to {host}{p}/ and p
\* to another key or to none.
C21_SlashSameBundleUnlessBothStored ==
    last.kind = "resolveBoth" =>
        IF SlashFormStoredApart
        THEN /\ last.foundSlash = <<KeyOf(last.domain, last.path \o <<"/">>)>>
             /\ last.found # last.foundSlash
        ELSE last.found = last.foundSlash

\* C21 witness: only host/a/ is stored; /a and /a/ both resolve to it.
C21_Witness ==
    /\ last.kind = "resolveBoth"
    /\ last.path = <<"/", "a">>
    /\ ~KVHas(kv, <<"h", "/", "a">>)
    /\ last.found = << <<"h", "/", "a", "/">> >>
    /\ last.foundSlash = last.found

\* C21 witness of the exception: host/a and host/a/ are both stored; /a
\* resolves to host/a and /a/ to host/a/.
C21_WitnessApart ==
    /\ last.kind = "resolveBoth"
    /\ last.path = <<"/", "a">>
    /\ last.found = << <<"h", "/", "a">> >>
    /\ last.foundSlash = << <<"h", "/", "a", "/">> >>

\* ------------------------------------------------ no-rule specification

LpKey == <<"h", "/", "lp">>

\* KV contents without a bundle for the root of host h: none at all, or one
\* campaign (proxied, hosted) stored under h/lp.
NoRuleKVConfigs ==
    {[k \in {} |-> ProxyBundle]}
      \cup {[k \in {LpKey} |-> b] : b \in {ProxyBundle, HostedBundle("K1")}}

\* The Referer header as new URL() reads it: absent (<<>>), not parseable,
\* a page of host h, a page of another host.
Referrers ==
    {<<>>, <<[valid |-> FALSE, host |-> "", path |-> <<"/">>]>>,
     <<[valid |-> TRUE, host |-> "h", path |-> <<"/", "lp">>]>>,
     <<[valid |-> TRUE, host |-> "h", path |-> <<"/", "lp", "/">>]>>,
     <<[valid |-> TRUE, host |-> "g", path |-> <<"/", "lp">>]>>}

\* Requests of the no-rule specification: pages and assets outside /lp with
\* every referer, the page /lp itself in both forms, the embed script for the
\* root page.
NoRuleRequests ==
    {[Request("", p, {}, <<>>, "US", "chromeMac") EXCEPT !.referrer = r] :
        p \in {<<"/">>, <<"/", "s", ".css">>, <<"/", "a", ".html">>, <<"/", "click">>},
        r \in Referrers}
      \cup {Request("", p, {}, <<>>, "US", "chromeMac") : p \in {<<"/", "lp">>, <<"/", "lp", "/">>}}
      \cup {Request("", TrackJs, {},
                    <<[valid |-> TRUE, host |-> "h", path |-> <<"/">>, query |-> {}]>>,
                    "US", "chromeMac")}

InitNoRule ==
    /\ kv \in NoRuleKVConfigs
    /\ events = {}
    /\ tasks = {}
    /\ last = [kind |-> "none"]
    /\ idSeq = 0
    /\ destinationUrlCache = {}
    /\ d1Rows = Destinations
    /\ clockMs = 0

NextNoRule ==
    \/ \E req \in NoRuleRequests : \E env \in Envs(req) : Dispatch(req, env)
    \/ \E task \in tasks, insertOk \in BOOLEAN : RunTask(task, insertOk)

SpecNoRule == InitNoRule /\ [][NextNoRule]_vars

\* getKVRule returned null for the last request of the catch-all route.
NoKeyMatched ==
    /\ Handled("main")
    /\ last.out.looked
    /\ GetKVKey(kv, LastData.domain, LastData.path) = <<>>

\* The referer of the last request is a page of the request's host whose
\* path resolves to a bundle with an http(s) default.
ReferrerResolvesToUpstream ==
    /\ LastData.referrer # <<>>
    /\ LastData.referrer[1].valid
    /\ LastData.referrer[1].host = LastData.domain
    /\ GetKVKey(kv, LastData.domain, LastData.referrer[1].path) # <<>>
    /\ IsUrl(kv[GetKVKey(kv, LastData.domain, LastData.referrer[1].path)[1]].defaultFolder)

\* The answer of serveNotFoundPage: the 404 page with status 404, or the
\* 500 that stands for it when the error page itself cannot be served.
NotFoundAnswered ==
    /\ last.out.branch = "no-rule"
    /\ last.out.kind = "notfound"
    /\ last.out.status \in {404, 500}

C22_WitnessReferrer ==
    /\ NoKeyMatched
    /\ ReferrerResolvesToUpstream
    /\ last.out.branch = "referrer-proxy"
    /\ last.out.status = 200

\* ------------------------------------------- page variables specification

\* `variables` of a rule or of a bundle: absent (<<>>) or a record of
\* macros, as <<record>>.
NoVariables == <<>>

\* selectedRule.variables || rule.variables: every object is truthy, the
\* empty one included.
FinalActionVariables(selectedRuleVariables, ruleVariables) ==
    IF selectedRuleVariables # NoVariables THEN selectedRuleVariables
    ELSE ruleVariables

\* populateMacros for a page view: the custom variables, then the built-in
\* macros written over them (click.id of a page view is '').
PopulateMacros(variables) ==
    LET custom == IF variables = NoVariables THEN <<>> ELSE variables[1]
    IN  [m \in DOMAIN custom \cup {"{{click.id}}"} |->
            IF m = "{{click.id}}" THEN Lit("") ELSE custom[m]]

\* The variables a winning rule can define.
RuleVariableChoices ==
    {NoVariables,
     <<[m \in {} |-> Lit("")]>>,
     <<[m \in {"{{promo_code}}"} |-> Lit("USA2024")]>>,
     <<[m \in {"{{promo_code}}", "{{support_email}}"} |->
           IF m = "{{promo_code}}" THEN Lit("USA2024") ELSE Lit("us@example.com")]>>}

\* The variables a bundle can define.
BundleVariableChoices ==
    {NoVariables,
     <<[m \in {"{{support_email}}"} |-> Lit("support@example.com")]>>,
     <<[m \in {"{{promo_code}}", "{{support_email}}"} |->
           IF m = "{{promo_code}}" THEN Lit("WORLD") ELSE Lit("support@example.com")]>>}

\* The tokens of the pages served.
PageTokens ==
    {Lit("{{promo_code}}"), Lit("{{support_email}}"), Lit("{{click.id}}"), Lit("text")}

\* Pages of one to MaxTokens tokens.
Pages == UNION {[1..n -> PageTokens] : n \in 1..MaxTokens}

\* A page, the variables of the winning rule and those of its bundle.
InitVariables ==
    /\ kv \in {[k \in {} |-> RedirectBundle]}
    /\ events = {}
    /\ tasks = {}
    /\ last \in {[kind |-> "input", page |-> t, ruleVariables |-> rv,
                  bundleVariables |-> bv] :
                    t \in Pages, rv \in RuleVariableChoices, bv \in BundleVariableChoices}
    /\ idSeq = 0
    /\ destinationUrlCache = {}
    /\ d1Rows = Destinations
    /\ clockMs = 0

\* The page served by the action of the winning rule: finalAction.variables
\* handed to servePublicFile, populateMacros, replaceMacros.
ServeRulePage ==
    /\ last.kind = "input"
    /\ last' = [kind |-> "page", page |-> last.page,
                ruleVariables |-> last.ruleVariables,
                bundleVariables |-> last.bundleVariables,
                out |-> ReplaceMacros(last.page,
                            PopulateMacros(FinalActionVariables(last.ruleVariables,
                                                                last.bundleVariables)))]
    /\ UNCHANGED <<kv, events, tasks, idSeq, destinationUrlCache, d1Rows, clockMs>>

NextVariables == ServeRulePage

SpecVariables == InitVariables /\ [][NextVariables]_vars

\* The macros a record of variables defines.
Defined(variables) == IF variables = NoVariables THEN {} ELSE DOMAIN variables[1]

\* C23: when the winning rule defines its own variables, the variables of
\* the bundle are still available to the page: a macro of the rule is
\* replaced by the rule's value, and a macro only the bundle defines is
\* replaced by the bundle's value.
C23_BundleVariablesAvailable ==
    (last.kind = "page" /\ Defined(last.ruleVariables) # {}) =>
        \A i \in 1..Len(last.page) :
            /\ last.page[i].pfx \in Defined(last.ruleVariables)
                  => last.out[i] = last.ruleVariables[1][last.page[i].pfx]
            /\ last.page[i].pfx \in Defined(last.bundleVariables) \ Defined(last.ruleVariables)
                  => last.out[i] = last.bundleVariables[1][last.page[i].pfx]

\* The page of a rule without variables of its own has the macros of the
\* bundle replaced.
C23_BundleVariablesWithoutRuleVariables ==
    (last.kind = "page" /\ last.ruleVariables = NoVariables) =>
        \A i \in 1..Len(last.page) :
            last.page[i].pfx \in Defined(last.bundleVariables)
                => last.out[i] = last.bundleVariables[1][last.page[i].pfx]

\* -------------------------------------------- event ordering specification

\* The handler of a request is followed statement by statement around its
\* waitUntil call; a scheduled write is followed through its awaits.

\* The code between c.executionCtx.waitUntil(...) and the return of the
\* response has no await in any branch of applyKVRule: the handler keeps
\* the isolate's thread from the call to the return.
AwaitsAfterWaitUntilAlways(branch) == TRUE

AwaitsAfterWaitUntil(branch) == FALSE

\* KV contents of the ordering specification: a hosted campaign, one
\* without a campaign id, a redirect campaign.
OrderKVConfigs ==
    {[k \in {RootKey} |-> b] : b \in {HostedBundle("K1"), HostedBundle(""), RedirectBundle}}

\* Requests of the ordering specification: the home page by both visitors,
\* an asset, a click-out, the embed script.
OrderRequests ==
    {Request("", p, {}, <<>>, "US", "chromeMac") :
        p \in {<<"/">>, <<"/", "s", ".css">>, <<"/", "click">>}}
      \cup {Request("", <<"/">>, {}, <<>>, "US", "safariIphone")}
      \cup {Request("", TrackJs, {},
                    <<[valid |-> TRUE, host |-> "h", path |-> <<"/">>, query |-> {}]>>,
                    "US", "chromeMac")}

InitOrder ==
    /\ kv \in OrderKVConfigs
    /\ events = {}
    /\ tasks = {}
    /\ last = [kind |-> "none"]
    /\ idSeq = 0
    /\ destinationUrlCache = {}
    /\ d1Rows = Destinations
    /\ clockMs = 0

\* The writes of the request in hand that are still pending.
OwnTasks == {t \in tasks : [op |-> t.op, row |-> t.row] \in last.out.scheduled}

\* The handler runs from the arrival of the request to the statement before
\* its waitUntil call (to its return statement when it schedules nothing):
\* the lookups and the fetch of the page are awaited on the way.
Receive(req, env) ==
    /\ last.kind # "handling"
    /\ idSeq + 2 <= MaxIds
    /\ LET out == MainHandler(req, env, events, idSeq + 1, destinationUrlCache)
       IN  /\ last' = [kind |-> "handling", pc |-> "beforeWaitUntil", route |-> "main",
                       req |-> req, dbOk |-> env.dbOk, out |-> out]
           /\ idSeq' = idSeq + out.minted
           /\ destinationUrlCache' = out.cache
    /\ UNCHANGED <<kv, events, tasks, d1Rows, clockMs>>

\* c.executionCtx.waitUntil((async () => { await storeEvent(...) })()): the
\* write runs up to its first await and its promise is handed to the runtime.
WaitUntil ==
    /\ last.kind = "handling"
    /\ last.pc = "beforeWaitUntil"
    /\ last.out.scheduled # {}
    /\ tasks' = tasks \cup {[op |-> t.op, row |-> t.row, phase |-> "queued"] :
                               t \in last.out.scheduled}
    /\ last' = [last EXCEPT !.pc = "afterWaitUntil"]
    /\ UNCHANGED <<kv, events, idSeq, destinationUrlCache, d1Rows, clockMs>>

\* return new Response(...) / return folderResponse: the response leaves
\* the handler; atReturn keeps how far the request's writes had come.
Return ==
    /\ last.kind = "handling"
    /\ \/ last.pc = "afterWaitUntil"
       \/ last.pc = "beforeWaitUntil" /\ last.out.scheduled = {}
    /\ last' = [kind |-> "request", route |-> last.route, req |-> last.req,
                dbOk |-> last.dbOk, out |-> last.out,
                atReturn |-> {t.phase : t \in OwnTasks},
                lost |-> last.out.scheduled # {} /\ OwnTasks = {},
                gone |-> FALSE]
    /\ UNCHANGED <<kv, events, tasks, idSeq, destinationUrlCache, d1Rows, clockMs>>

\* The client goes away after the response: no code of the worker listens
\* for it (no abort signal is read), so nothing but the connection changes.
ClientDisconnect ==
    /\ last.kind = "request"
    /\ "gone" \in DOMAIN last
    /\ ~last.gone
    /\ last' = [last EXCEPT !.gone = TRUE]
    /\ UNCHANGED <<kv, events, tasks, idSeq, destinationUrlCache, d1Rows, clockMs>>

\* The isolate runs one piece of JavaScript at a time: a continuation of a
\* write runs only while no handler holds the thread.
ThreadFree ==
    IF last.kind # "handling" THEN TRUE
    ELSE last.pc = "afterWaitUntil" /\ AwaitsAfterWaitUntil(last.out.branch)

\* The write resumes after `await import('pg')`: storeEvent has dropped an
\* orphan (the promise settles without an insert); otherwise the client
\* connects and the INSERT is sent.
StartInsert(task) ==
    /\ task \in tasks
    /\ task.phase = "queued"
    /\ ThreadFree
    /\ tasks' = IF HandedRows(task) = {} THEN tasks \ {task}
                ELSE (tasks \ {task}) \cup {[task EXCEPT !.phase = "inserting"]}
    /\ UNCHANGED <<kv, events, last, idSeq, destinationUrlCache, d1Rows, clockMs>>

\* A storeInPlanetScale that runs the write again after a failure.
FinishInsertRetrying(task, insertOk) ==
    /\ task \in tasks
    /\ task.phase = "inserting"
    /\ ThreadFree
    /\ tasks' = IF insertOk THEN tasks \ {task}
                ELSE (tasks \ {task}) \cup {[task EXCEPT !.phase = "queued"]}
    /\ events' = IF insertOk THEN InsertEvent(events, task.row) ELSE events
    /\ UNCHANGED <<kv, last, idSeq, destinationUrlCache, d1Rows, clockMs>>

\* The INSERT ends: the row is stored, or the connection or the query
\* failed; the catch of storeInPlanetScale logs the failure and the promise
\* settles either way.
FinishInsert(task, insertOk) ==
    /\ task \in tasks
    /\ task.phase = "inserting"
    /\ ThreadFree
    /\ tasks' = tasks \ {task}
    /\ events' = IF insertOk THEN InsertEvent(events, task.row) ELSE events
    /\ UNCHANGED <<kv, last, idSeq, destinationUrlCache, d1Rows, clockMs>>

NextOrder ==
    \/ \E req \in OrderRequests : \E env \in Envs(req) : Receive(req, env)
    \/ WaitUntil
    \/ Return
    \/ ClientDisconnect
    \/ \E task \in tasks : StartInsert(task)
    \/ \E task \in tasks, insertOk \in BOOLEAN : FinishInsert(task, insertOk)

SpecOrder == InitOrder /\ [][NextOrder]_vars

\* C24: within one request the insert of its event is not started before
\* the response has been prepared (while the handler is still at work the
\* request's write has not passed its first await), and the response is
\* returned without waiting for the insert (at the return the write is
\* still queued, neither started nor finished).
C24_InsertAfterResponse ==
    /\ last.kind = "handling" => \A t \in OwnTasks : t.phase = "queued"
    /\ (last.kind = "request" /\ "atReturn" \in DOMAIN last) =>
          /\ ~last.lost
          /\ last.atReturn \subseteq {"queued"}

\* C24 witness: the response of a page view has been returned and the
\* insert of its impression is under way.
C24_Witness ==
    /\ last.kind = "request"
    /\ "atReturn" \in DOMAIN last
    /\ last.atReturn = {"queued"}
    /\ \E t \in OwnTasks : t.phase = "inserting" /\ t.row.isImpression

\* C24 witness for a redirect: the 302 has been returned and the row of the
\* redirect is stored afterwards.
C24_WitnessStored ==
    /\ last.kind = "request"
    /\ "atReturn" \in DOMAIN last
    /\ last.atReturn = {"queued"}
    /\ last.out.status = 302
    /\ \E t \in last.out.scheduled : \E r \in events : r.eventId = t.row.eventId

\* The ordering specification with the scheduling the runtime gives: a
\* handler runs on to its return, and a promise handed to waitUntil is run
\* until it settles, whatever becomes of the response and the client.
SpecOrderFair ==
    /\ SpecOrder
    /\ WF_vars(WaitUntil)
    /\ WF_vars(Return)
    /\ WF_vars(\E task \in tasks : StartInsert(task))
    /\ WF_vars(\E task \in tasks, insertOk \in BOOLEAN : FinishInsert(task, insertOk))

\* A write leaves the pending ones in this step.
Settles(t) == t \in tasks /\ t \notin tasks' /\ [t EXCEPT !.phase = "inserting"] \notin tasks'

\* One step of a write: it settles with its row inserted or with the
\* store as it was, the response and everything else of the request stay
\* as they are, and no write comes back once its INSERT has been sent.
WriteStep ==
    /\ \A t \in tasks :
          Settles(t) => /\ events' \in {events, InsertEvent(events, t.row)}
                        /\ last' = last
    /\ \A t \in tasks' \ tasks :
          \/ t.phase = "inserting" /\ [t EXCEPT !.phase = "queued"] \in tasks
          \/ t.phase = "queued" /\ last.kind = "handling" /\ last.pc = "beforeWaitUntil"

\* C25: every event write scheduled by a request eventually runs to
\* completion, also after the response has been sent or the client has
\* disconnected: the row is inserted, or the insert fails and the failure
\* is swallowed, never retried and never reflected in a response.
C25_WritesComplete ==
    /\ (tasks # {}) ~> (tasks = {})
    /\ [][WriteStep]_vars

\* C25 witness: the response was sent with the write pending, the client
\* has gone, the insert has failed since, and the row is in no store.
C25_Witness ==
    /\ last.kind = "request"
    /\ "gone" \in DOMAIN last
    /\ last.gone
    /\ last.atReturn = {"queued"}
    /\ tasks = {}
    /\ \E t \in last.out.scheduled :
          /\ HandedRows(t) # {}
          /\ \A r \in events : r.eventId # t.row.eventId

\* C25 witness of the insert: the client has gone and the row is stored.
C25_WitnessInserted ==
    /\ last.kind = "request"
    /\ "gone" \in DOMAIN last
    /\ last.gone
    /\ last.atReturn = {"queued"}
    /\ tasks = {}
    /\ \E t \in last.out.scheduled : \E r \in events : r.eventId = t.row.eventId

\* ------------------------------------------ destination cache specification

\* getDestinationUrl is followed through its awaits: lookups of one
\* destination run concurrently in the isolate, the dashboard edits the row
\* and time passes between their steps.

\* `if (cacheAge < 100)`
FastPathMs == 100

\* The clock advances in steps of TickMs up to MaxClockMs; updated_at grows
\* by one with an edit, up to MaxUpdatedAt.
TickMs == 50

MaxClockMs == 150

MaxUpdatedAt == 2

\* Lookups in flight at the same time.
LookupSlots == {1, 2}

UrlA == Url("https://offer.example/a", {})

UrlB == Url("https://offer.example/b", {})

\* The destination the lookups are for, as the dashboard created it.
CacheRows == {[id |-> "off1", url |-> UrlA, status |-> "active", updated_at |-> 1]}

\* destinationUrlCache.get(id): <<>> for undefined, <<entry>> otherwise.  An
\* entry is an object: `obj` tells one object from another with equal fields.
CacheGet(cache, id) ==
    LET found == {e \in cache : e.id = id}
    IN  IF found = {} THEN <<>> ELSE <<CHOOSE e \in found : TRUE>>

\* A fast path that is never taken.
IsFreshNever(cacheAge) == FALSE

\* cacheAge < 100
IsFresh(cacheAge) == cacheAge < FastPathMs

\* SELECT updated_at FROM destinations WHERE id = ? LIMIT 1 (.first()):
\* the query throws, or yields the value of the row, if there is one.
SelectUpdatedAt(rows, id, ok) ==
    LET found == {d \in rows : d.id = id}
    IN  [ok |-> ok,
         rows |-> IF ~ok \/ found = {} THEN <<>>
                  ELSE <<(CHOOSE d \in found : TRUE).updated_at>>]

\* SELECT url, updated_at FROM destinations WHERE id = ? AND status =
\* 'active' LIMIT 1 (.first())
SelectActive(rows, id, ok) ==
    LET found == {d \in rows : d.id = id /\ d.status = "active"}
        row == CHOOSE d \in found : TRUE
    IN  [ok |-> ok,
         rows |-> IF ~ok \/ found = {} THEN <<>>
                  ELSE <<[url |-> row.url, updated_at |-> row.updated_at]>>]

\* A probe that takes every row that still exists for unchanged.
ProbeUnchangedIfPresent(cached, probe) == probe.rows # <<>>

\* currentUpdatedAt && currentUpdatedAt.updated_at === cached.updatedAt
ProbeUnchanged(cached, probe) ==
    probe.rows # <<>> /\ probe.rows[1] = cached.updatedAt

\* The lowest object number no entry of the Map and no lookup refers to.
FreshObj ==
    LET used == {e.obj : e \in destinationUrlCache}
                  \cup {t.cached[1].obj : t \in {u \in tasks : u.cached # <<>>}}
    IN  CHOOSE k \in 1..(Cardinality(used) + 1) :
            k \notin used /\ \A j \in 1..(k - 1) : j \in used

\* An entry whose updatedAt is read from the table as the entry is stored,
\* not taken from the row the URL came from.
FetchedEntryLateStamp(id, result, nowMs, obj) ==
    [id |-> id,
     url |-> IF result.rows = <<>> THEN NoText ELSE result.rows[1].url,
     updatedAt |-> (CHOOSE d \in d1Rows : d.id = id).updated_at,
     cacheTimestamp |-> nowMs, obj |-> obj]

\* { url: result?.url || null, updatedAt: result?.updated_at || 0,
\*   cacheTimestamp: Date.now() }
FetchedEntry(id, result, nowMs, obj) ==
    [id |-> id,
     url |-> IF result.rows = <<>> THEN NoText ELSE result.rows[1].url,
     updatedAt |-> IF result.rows = <<>> THEN 0 ELSE result.rows[1].updated_at,
     cacheTimestamp |-> nowMs, obj |-> obj]

\* The entry the catch block stores: { url: null, updatedAt: 0, ... }
NullEntry(id, nowMs, obj) ==
    [id |-> id, url |-> NoText, updatedAt |-> 0, cacheTimestamp |-> nowMs, obj |-> obj]

\* cached.cacheTimestamp = Date.now() on the object the lookup holds: the
\* Map changes only if that object is still its entry.
Touch(cache, cached, nowMs) ==
    {IF e.obj = cached.obj THEN [e EXCEPT !.cacheTimestamp = nowMs] ELSE e : e \in cache}

\* The row of the destination.
RowOf(id) == CHOOSE d \in d1Rows : d.id = id

\* The outcome of a lookup that has returned, with what it saw on the way.
Returned(task, url, path, after) ==
    [kind |-> "lookup", id |-> task.id, started |-> task.started,
     finished |-> clockMs, cached |-> task.cached, rowAtStart |-> task.rowAtStart,
     probe |-> task.probe, fetch |-> task.fetch, queries |-> task.queries,
     url |-> url, path |-> path,
     before |-> CacheGet(destinationUrlCache, task.id), after |-> CacheGet(after, task.id)]

\* A lookup before its first step.
NewLookup(slot, id) ==
    [op |-> "getDestinationUrl", slot |-> slot, id |-> id, pc |-> "start",
     started |-> clockMs, cached |-> CacheGet(destinationUrlCache, id),
     rowAtStart |-> RowOf(id), probe |-> <<>>, fetch |-> <<>>, queries |-> 0]

InitCache ==
    /\ kv = [k \in {} |-> RedirectBundle]
    /\ events = {}
    /\ tasks = {}
    /\ last = [kind |-> "none"]
    /\ idSeq = 0
    /\ destinationUrlCache = {}
    /\ d1Rows = CacheRows
    /\ clockMs = 0

\* getDestinationUrl up to its first await: the fast path returns at once,
\* an older entry sends the probe, a miss sends the fetch.  The row is read
\* as the query is sent.
StartLookup(slot, id, ok) ==
    LET task == NewLookup(slot, id)
    IN  /\ \A t \in tasks : t.slot # slot
        /\ IF task.cached # <<>> /\ IsFresh(clockMs - task.cached[1].cacheTimestamp)
           THEN /\ ok
                /\ last' = Returned(task, task.cached[1].url, "fast", destinationUrlCache)
                /\ tasks' = tasks
           ELSE IF task.cached # <<>>
           THEN /\ tasks' = tasks \cup
                      {[task EXCEPT !.pc = "probe", !.queries = 1,
                                    !.probe = <<SelectUpdatedAt(d1Rows, id, ok)>>]}
                /\ last' = last
           ELSE /\ tasks' = tasks \cup
                      {[task EXCEPT !.pc = "fetch", !.queries = 1,
                                    !.fetch = <<SelectActive(d1Rows, id, ok)>>]}
                /\ last' = last
        /\ UNCHANGED <<kv, events, idSeq, destinationUrlCache, d1Rows, clockMs>>

\* The catch block: the null entry is stored and null returned.
LookupFailed(task) ==
    /\ destinationUrlCache' = CachePut(destinationUrlCache, NullEntry(task.id, clockMs, FreshObj))
    /\ last' = Returned(task, NoText, "failed",
                        CachePut(destinationUrlCache, NullEntry(task.id, clockMs, FreshObj)))
    /\ tasks' = tasks \ {task}

\* The probe has answered: unchanged, the entry held is touched and its URL
\* returned; otherwise the fetch is sent.
ResumeProbe(task, ok) ==
    /\ task \in tasks
    /\ task.pc = "probe"
    /\ IF ~task.probe[1].ok
       THEN ok /\ LookupFailed(task)
       ELSE IF ProbeUnchanged(task.cached[1], task.probe[1])
       THEN /\ ok
            /\ destinationUrlCache' = Touch(destinationUrlCache, task.cached[1], clockMs)
            /\ last' = Returned(task, task.cached[1].url, "unchanged",
                                Touch(destinationUrlCache, task.cached[1], clockMs))
            /\ tasks' = tasks \ {task}
       ELSE /\ tasks' = (tasks \ {task}) \cup
                  {[task EXCEPT !.pc = "fetch", !.queries = 2,
                                !.fetch = <<SelectActive(d1Rows, task.id, ok)>>]}
            /\ UNCHANGED <<last, destinationUrlCache>>
    /\ UNCHANGED <<kv, events, idSeq, d1Rows, clockMs>>

\* The fetch has answered: the entry is replaced and the URL returned.
ResumeFetch(task) ==
    /\ task \in tasks
    /\ task.pc = "fetch"
    /\ IF ~task.fetch[1].ok
       THEN LookupFailed(task)
       ELSE /\ destinationUrlCache' =
                  CachePut(destinationUrlCache,
                           FetchedEntry(task.id, task.fetch[1], clockMs, FreshObj))
            /\ last' = Returned(task,
                                FetchedEntry(task.id, task.fetch[1], clockMs, FreshObj).url,
                                "fetched",
                                CachePut(destinationUrlCache,
                                         FetchedEntry(task.id, task.fetch[1], clockMs, FreshObj)))
            /\ tasks' = tasks \ {task}
    /\ UNCHANGED <<kv, events, idSeq, d1Rows, clockMs>>

\* The dashboard edits the destination: a new URL or status, updated_at
\* advanced.
EditDestination(id, url, status) ==
    /\ RowOf(id).updated_at < MaxUpdatedAt
    /\ <<url, status>> # <<RowOf(id).url, RowOf(id).status>>
    /\ d1Rows' = {IF d.id = id
                  THEN [d EXCEPT !.url = url, !.status = status, !.updated_at = @ + 1]
                  ELSE d : d \in d1Rows}
    /\ UNCHANGED <<kv, events, tasks, last, idSeq, destinationUrlCache, clockMs>>

\* Time passes.
Tick ==
    /\ clockMs + TickMs <= MaxClockMs
    /\ clockMs' = clockMs + TickMs
    /\ UNCHANGED <<kv, events, tasks, last, idSeq, destinationUrlCache, d1Rows>>

NextCache ==
    \/ \E slot \in LookupSlots, ok \in BOOLEAN : StartLookup(slot, "off1", ok)
    \/ \E task \in tasks, ok \in BOOLEAN : ResumeProbe(task, ok)
    \/ \E task \in tasks : ResumeFetch(task)
    \/ \E url \in {UrlA, UrlB}, status \in {"active", "paused"} :
          EditDestination("off1", url, status)
    \/ Tick

SpecCache == InitCache /\ [][NextCache]_vars

\* The lookup that returned last found an entry in the Map when it started.
HadEntry == last.kind = "lookup" /\ last.cached # <<>>

\* The age of that entry when the lookup started.
EntryAge == last.started - last.cached[1].cacheTimestamp

\* The row has not been edited since the lookup that returned last started
\* (every edit advances updated_at).
RowSettled == last.kind = "lookup" /\ RowOf(last.id) = last.rowAtStart

\* The URL the table holds for the destination of the last lookup: null
\* unless the row is active.
CurrentUrl == IF RowOf(last.id).status = "active" THEN RowOf(last.id).url ELSE NoText

\* No query of the last lookup failed.
QueriesSucceeded ==
    /\ last.probe # <<>> => last.probe[1].ok
    /\ last.fetch # <<>> => last.fetch[1].ok

\* C26: a lookup whose entry was written or refreshed less than 100 ms
\* before it started returns the entry's URL at once, sends no query to the
\* control database and leaves the Map as it was, whatever the row has
\* become in the meantime.
C26_FastPathNoQuery ==
    (HadEntry /\ EntryAge < FastPathMs) =>
        /\ last.url = last.cached[1].url
        /\ last.queries = 0
        /\ last.finished = last.started
        /\ last.after = last.before

\* A fast-path lookup returned a URL the row no longer holds.
C26_Witness ==
    /\ HadEntry
    /\ EntryAge < FastPathMs
    /\ last.queries = 0
    /\ last.url # NoText
    /\ last.rowAtStart.url # last.url
    /\ last.rowAtStart.updated_at # last.cached[1].updatedAt

\* C27: a lookup that starts 100 ms or more after its entry's
\* cacheTimestamp, whose queries succeed and whose row is not edited while it
\* runs, probes updated_at first.  If the row's updated_at equals the entry's
\* updatedAt, the entry's URL is returned after that one query, the Map's
\* entry keeps its url and updatedAt, and its cacheTimestamp is set to the
\* time of the return when it is still the object the lookup read.
\* Otherwise the row is fetched with a second query, the Map gets a new
\* entry made of the row's url and updated_at (null and 0 when the row is
\* not active) stamped with the time of the return, and that URL is
\* returned.
C27_ProbeThenRefetch ==
    (HadEntry /\ EntryAge >= FastPathMs /\ QueriesSucceeded /\ RowSettled) =>
        /\ last.probe # <<>>
        /\ last.probe[1].rows = <<last.rowAtStart.updated_at>>
        /\ IF last.rowAtStart.updated_at = last.cached[1].updatedAt
           THEN /\ last.url = last.cached[1].url
                /\ last.queries = 1
                /\ last.after # <<>>
                /\ last.after[1].url = last.before[1].url
                /\ last.after[1].updatedAt = last.before[1].updatedAt
                /\ last.after[1].obj = last.before[1].obj
                /\ last.before[1].obj = last.cached[1].obj =>
                       last.after[1].cacheTimestamp = last.finished
                /\ last.before[1].obj # last.cached[1].obj => last.after = last.before
           ELSE /\ last.url = CurrentUrl
                /\ last.queries = 2
                /\ last.after # <<>>
                /\ last.after[1].url = CurrentUrl
                /\ last.after[1].updatedAt =
                       (IF last.rowAtStart.status = "active"
                        THEN last.rowAtStart.updated_at ELSE 0)
                /\ last.after[1].cacheTimestamp = last.finished
                /\ last.after[1].obj # last.before[1].obj

\* The probe found the row changed and the lookup returned its new URL.
C27_Witness ==
    /\ HadEntry /\ EntryAge >= FastPathMs /\ QueriesSucceeded /\ RowSettled
    /\ last.rowAtStart.updated_at # last.cached[1].updatedAt
    /\ last.queries = 2
    /\ last.url # NoText
    /\ last.url # last.cached[1].url

\* The probe found the row unchanged and the entry was refreshed.
C27_WitnessUnchanged ==
    /\ HadEntry /\ EntryAge >= FastPathMs /\ QueriesSucceeded /\ RowSettled
    /\ last.rowAtStart.updated_at = last.cached[1].updatedAt
    /\ last.queries = 1
    /\ last.url # NoText
    /\ last.after[1].cacheTimestamp > last.cached[1].cacheTimestamp

\* The probe found the row paused and the lookup returned null.
C27_WitnessPaused ==
    /\ HadEntry /\ EntryAge >= FastPathMs /\ QueriesSucceeded /\ RowSettled
    /\ last.rowAtStart.status = "paused"
    /\ last.cached[1].url # NoText
    /\ last.queries = 2
    /\ last.url = NoText

\* C28: a lookup one of whose queries fails, started with an entry for the
\* destination in the Map, returns that entry's URL, and the Map's entry
\* still holds a URL it held before; a lookup started without an entry
\* returns null.
C28_StaleServedOnFailure ==
    (last.kind = "lookup" /\ ~QueriesSucceeded) =>
        IF last.cached # <<>>
        THEN /\ last.url = last.cached[1].url
             /\ last.after # <<>>
             /\ last.after[1].url \in {last.cached[1].url, last.before[1].url}
        ELSE last.url = NoText

\* A lookup that failed without an entry has the destination unavailable.
C28_UnavailableWithoutEntry ==
    (last.kind = "lookup" /\ ~QueriesSucceeded /\ last.cached = <<>>) =>
        last.url = NoText

\* C29: whatever lookups and edits ran before and alongside, a lookup that
\* starts 100 ms or more after the last write of its entry's cacheTimestamp,
\* whose queries succeed and whose row is not edited after it started,
\* returns the URL the table holds (null unless the row is active).
C29_StaleEntryCorrected ==
    (HadEntry /\ EntryAge >= FastPathMs /\ QueriesSucceeded /\ RowSettled) =>
        last.url = CurrentUrl

\* The entry the lookup found was older than the row although it had been
\* stored after the newer one was read: another lookup is still in flight,
\* and the lookup returned the row's URL.
C29_Witness ==
    /\ HadEntry /\ EntryAge >= FastPathMs /\ QueriesSucceeded /\ RowSettled
    /\ last.cached[1].url # NoText
    /\ last.cached[1].url # CurrentUrl
    /\ last.cached[1].updatedAt < last.rowAtStart.updated_at
    /\ last.url = CurrentUrl
    /\ CurrentUrl # NoText
    /\ tasks # {}

\* The dashboard pauses the destination and leaves updated_at as it was:
\* the column has a default and no trigger.
DeactivateSilently(id) ==
    /\ RowOf(id).status = "active"
    /\ d1Rows' = {IF d.id = id THEN [d EXCEPT !.status = "paused"] ELSE d : d \in d1Rows}
    /\ UNCHANGED <<kv, events, tasks, last, idSeq, destinationUrlCache, clockMs>>

NextCacheSilent ==
    \/ NextCache
    \/ DeactivateSilently("off1")

SpecCacheSilent == InitCache /\ [][NextCacheSilent]_vars

\* The row was not active when the last lookup started and has not changed
\* since.
InactiveThroughout == RowSettled /\ last.rowAtStart.status # "active"

\* C30: a lookup outside the fast path (no entry, or an entry 100 ms old or
\* older) for a destination that is not active from its start to its return
\* returns null, also when the row was paused with updated_at unchanged.
C30_InactiveNeverServed ==
    (/\ last.kind = "lookup"
     /\ last.cached # <<>> => EntryAge >= FastPathMs
     /\ QueriesSucceeded
     /\ InactiveThroughout) => last.url = NoText

\* ------------------------------------------ click destination specification

\* The longest clickDestinations list of the specification.
MaxClickDests == 2

\* Ids a clickDestinations entry can name: an active row, a paused row, no
\* row of the destinations table.
ClickDestIds == {"off1", "off2", "off3"}

\* The clickDestinations lists of the specification.
ClickDestLists ==
    UNION {[1..n -> {[id |-> i, weight |-> w] : i \in ClickDestIds, w \in {1, 3}}] :
              n \in 1..MaxClickDests}

\* A proxied campaign whose US rule sends its click-outs to the list; no
\* root-level destination.
ClickDestBundle(list) ==
    Bundle("K4", <<Rule(UsOnly, NoText, Url("https://lp.example/us", {}), NoText, NoText, <<list>>)>>,
           Url("https://lp.example/", {}), "proxy", "", <<>>)

\* A request to /click from the US.
ClickRequest == Request("", <<"/", "click">>, {}, <<>>, "US", "chromeMac")

\* What the click-out meets: every query succeeds, nothing is cached, the
\* destination draw is k / RandDenom.
ClickEnv(k) ==
    [fetch |-> "ok", dbOk |-> TRUE, d1Ok |-> TRUE, recent |-> FALSE, rLP |-> 0,
     rOffer |-> 0, rRule |-> 0, rDest |-> 0, rClick |-> 0, rClickDest |-> k]

InitClickDest ==
    /\ kv \in {[k \in {} |-> RedirectBundle]}
    /\ events = {}
    /\ tasks = {}
    /\ last \in {[kind |-> "input", list |-> l, k |-> k] :
                    l \in ClickDestLists, k \in 0..(RandDenom - 1)}
    /\ idSeq = 0
    /\ destinationUrlCache = {}
    /\ d1Rows = Destinations
    /\ clockMs = 0

\* The click-out of applyKVRule for the bundle of the list: the target
\* drawn and looked up, then the response.
ClickOut ==
    /\ last.kind = "input"
    /\ last' = [kind |-> "clicked", list |-> last.list, k |-> last.k,
                target |-> ClickOutTarget(RequestData(ClickRequest, 1),
                                          ClickDestBundle(last.list), TRUE,
                                          ClickEnv(last.k), {}),
                out |-> ApplyClickOut(RequestData(ClickRequest, 1),
                                      ClickDestBundle(last.list), RootKey,
                                      ClickOutTarget(RequestData(ClickRequest, 1),
                                                     ClickDestBundle(last.list), TRUE,
                                                     ClickEnv(last.k), {}),
                                      ClickEnv(last.k), {}, 2)]
    /\ UNCHANGED <<kv, events, tasks, idSeq, destinationUrlCache, d1Rows, clockMs>>

NextClickDest == ClickOut

SpecClickDest == InitClickDest /\ [][NextClickDest]_vars

\* The destination has an active row in the control database.
Resolves(id) == \E d \in d1Rows : d.id = id /\ d.status = "active"

\* The destinations of the last list that resolve.
Resolving == {i \in 1..Len(last.list) : Resolves(last.list[i].id)}

\* C31: when some destination of the rule's clickDestinations resolves, the
\* click-out does not fall through: the redirect goes to one of the
\* destinations that resolve, a missing or inactive one being skipped.
C31_UnresolvedSkipped ==
    (last.kind = "clicked" /\ Resolving # {}) =>
        /\ last.out.branch = "click-out"
        /\ \E i \in Resolving :
              /\ last.target.destinationId = last.list[i].id
              /\ last.target.url = (CHOOSE d \in d1Rows : d.id = last.list[i].id).url

\* The click-out falls through when no destination of the list resolves.
C31_FallsThroughWhenNoneResolves ==
    (last.kind = "clicked" /\ Resolving = {}) =>
        /\ last.target.url = NoText
        /\ last.out.branch # "click-out"

\* The click-out goes to the drawn destination when that one resolves.
C31_DrawnDestinationServed ==
    (last.kind = "clicked" /\ last.target.url # NoText) =>
        /\ last.out.branch = "click-out"
        /\ last.out.status = 302
        /\ Resolves(last.target.destinationId)

\* ------------------------------------- default click destination specification

LandingUrl == Url("https://lp.example/", {})

\* Bundles without rules whose click-outs go to the root-level destination:
\* a lone destinationId, a destinationId next to a proxied and next to a
\* hosted defaultFolder, a landing page of defaultDestinations with nested
\* offers, direct defaultOffers.
DefaultClickBundles ==
    {Bundle("K5", <<>>, NoText, "", "off1", <<>>),
     Bundle("K5", <<>>, LandingUrl, "proxy", "off1", <<>>),
     Bundle("K5", <<>>, Txt("safe"), "", "off1", <<>>),
     [Bundle("K5", <<>>, NoText, "", "", <<>>) EXCEPT
        !.defaultDestinations =
            <<[value |-> LandingUrl, mode |-> "", weight |-> 1,
               offers |-> <<[id |-> "off1", weight |-> 1], [id |-> "off2", weight |-> 3]>>]>>],
     [Bundle("K5", <<>>, NoText, "", "", <<>>) EXCEPT
        !.defaultOffers = <<[id |-> "off1", weight |-> 1], [id |-> "off2", weight |-> 3]>>]}

InitDefaultClick ==
    /\ kv \in {[k \in {RootKey} |-> b] : b \in DefaultClickBundles}
    /\ events = {}
    /\ tasks = {}
    /\ last = [kind |-> "none"]
    /\ idSeq = 0
    /\ destinationUrlCache = {}
    /\ d1Rows = Destinations
    /\ clockMs = 0

\* The click-out requests: /click and /click/ by both visitors.
ClickRequests ==
    {Request("", p, {}, <<>>, "US", ua) :
        p \in {<<"/", "click">>, <<"/", "click", "/">>}, ua \in {"chromeMac", "safariIphone"}}

\* One request to the catch-all route, handled up to its response; what it
\* met outside the worker and the bundle as getKVRule handed it to
\* applyKVRule are kept next to the answer.
TracedAnswer(req, env, kvRuleResult, out) ==
    /\ idSeq + out.minted <= MaxIds
    /\ last' = [kind |-> "request", route |-> "main", req |-> req,
                dbOk |-> env.dbOk, d1Ok |-> env.d1Ok, fetch |-> env.fetch,
                rule |-> kvRuleResult.rule, out |-> out]
    /\ tasks' = tasks \cup out.scheduled
    /\ idSeq' = idSeq + out.minted
    /\ destinationUrlCache' = out.cache
    /\ UNCHANGED <<kv, events, d1Rows, clockMs>>

ClickDefault(req, env) ==
    /\ idSeq = 0
    /\ TracedAnswer(req, env,
                    GetKVRule(kv, req.host, req.path, destinationUrlCache, env),
                    MainHandler(req, env, events, idSeq + 1, destinationUrlCache))

NextDefaultClick ==
    \/ \E req \in ClickRequests : \E env \in Envs(req) : ClickDefault(req, env)
    \/ \E task \in tasks, insertOk \in BOOLEAN : RunTask(task, insertOk)

SpecDefaultClick == InitDefaultClick /\ [][NextDefaultClick]_vars

\* The last /click request met a bundle with a root-level destinationId that
\* resolves and a defaultFolder.
DefaultClickCase ==
    /\ last.kind = "request"
    /\ "rule" \in DOMAIN last
    /\ last.rule.destinationId # ""
    /\ Truthy(last.rule.defaultFolder)
    /\ last.d1Ok
    /\ Resolves(last.rule.destinationId)

\* The answer is a 302 to the URL of the destination, and one click row with
\* the destinationId is handed to the event store.
RedirectsToDestination ==
    /\ last.out.status = 302
    /\ last.out.location.http
    /\ last.out.location.body =
          (CHOOSE d \in d1Rows : d.id = last.rule.destinationId).url.body
    /\ \E t \in last.out.scheduled :
          /\ t.row.isClick /\ ~t.row.isImpression
          /\ t.row.destinationId = last.rule.destinationId
          /\ last.out.scheduled = {t}

\* C32: a /click request on a bundle without a resolving click-out rule and
\* with a root-level destinationId and defaultFolder is answered 302 with a
\* Location built from the URL of that destination, and a click row
\* carrying the destinationId is emitted; also for a destinationId taken
\* from the nested offers of defaultDestinations.
C32_DefaultClickToDestination == DefaultClickCase => RedirectsToDestination

\* Where getKVRule made the defaultFolder out of the destination (a lone
\* destinationId, direct defaultOffers), the click-out goes to it.
C32_ResolvedDefaultFolderServed ==
    (DefaultClickCase /\ kv[RootKey].defaultFolder = NoText /\ kv[RootKey].defaultDestinations = <<>>)
        => RedirectsToDestination

\* ------------------------------------------- asset request specification

Utm == <<"utm", Lit("x")>>

\* The flags of the rules of the specification: with and without a params
\* predicate, for the US and for Canada.
AssetFlagSets ==
    {[NoFlags EXCEPT !.params = <<{Utm}>>],
     [NoFlags EXCEPT !.params = <<{Utm}>>, !.country = <<{"US"}>>],
     [NoFlags EXCEPT !.params = <<{Utm}>>, !.country = <<{"CA"}>>],
     [NoFlags EXCEPT !.country = <<{"US"}>>]}

\* Hosted campaigns of one or two rules, each with a folder of its own; the
\* default folder is `safe`.
AssetBundles ==
    {Bundle("K1", <<Rule(f, Txt("lpA"), NoText, NoText, NoText, <<>>)>>,
            Txt("safe"), "", "", <<>>) : f \in AssetFlagSets}
      \cup
    {Bundle("K1", <<Rule(f, Txt("lpA"), NoText, NoText, NoText, <<>>),
                    Rule(g, Txt("lpB"), NoText, NoText, NoText, <<>>)>>,
            Txt("safe"), "", "", <<>>) : f \in AssetFlagSets, g \in AssetFlagSets}

\* A stylesheet and the home page, with and without the utm parameter, from
\* the US and from Germany.
AssetRequests ==
    {Request("", p, q, <<>>, c, "chromeMac") :
        p \in {<<"/", "s", ".css">>, <<"/">>}, q \in {{}, {Utm}}, c \in {"US", "DE"}}

InitAsset ==
    /\ kv \in {[k \in {} |-> RedirectBundle]}
    /\ events = {}
    /\ tasks = {}
    /\ last \in {[kind |-> "input", bundle |-> b, req |-> r] :
                    b \in AssetBundles, r \in AssetRequests}
    /\ idSeq = 0
    /\ destinationUrlCache = {}
    /\ d1Rows = Destinations
    /\ clockMs = 0

\* The action applyKVRule decides on for the request: the winning rule's or
\* the default's.
DecideAction ==
    /\ last.kind = "input"
    /\ last' = [kind |-> "decided", bundle |-> last.bundle, req |-> last.req,
                action |-> FinalAction(RequestData(last.req, 1), last.bundle,
                                       ~IsPageLike(last.req.path), ClickEnv(0))]
    /\ UNCHANGED <<kv, events, tasks, idSeq, destinationUrlCache, d1Rows, clockMs>>

NextAsset == DecideAction

SpecAsset == InitAsset /\ [][NextAsset]_vars

\* The rules of the last bundle that match the last request directly, and
\* those that match once params is removed from their flags.
DirectMatches ==
    {i \in 1..Len(last.bundle.rules) :
        RuleMatches(RequestData(last.req, 1), last.bundle.rules[i], ~IsPageLike(last.req.path))}

RetryMatches ==
    {i \in 1..Len(last.bundle.rules) :
        CheckSingleRule(RequestData(last.req, 1),
                        [last.bundle.rules[i].flags EXCEPT !.params = <<>>],
                        ~IsPageLike(last.req.path))}

\* The last request was an asset request that no rule matched directly.
UnmatchedAsset ==
    /\ last.kind = "decided"
    /\ ~IsPageLike(last.req.path)
    /\ DirectMatches = {}

\* C33: when no rule matches an asset request directly and some rule matches
\* with params removed from its flags, the action is that of a rule matching
\* on the retry; the default folder is served only when the retry matches
\* no rule either.
C33_AssetInheritsRule ==
    /\ (UnmatchedAsset /\ RetryMatches # {}) =>
          \E i \in RetryMatches :
             last.action = RuleAction(last.bundle.rules[i], last.bundle, ClickEnv(0))
    /\ (UnmatchedAsset /\ RetryMatches = {}) => last.action = DefaultAction(last.bundle)

\* An asset request that no rule matches directly is served from the
\* default folder.
C33_UnmatchedAssetGetsDefault ==
    UnmatchedAsset => last.action = DefaultAction(last.bundle)

\* ------------------------------------------------- upstream specification

\* A proxied campaign (a proxied page for the US, a proxied default) and a
\* campaign whose US rule rewrites the origin's page.
UpstreamBundles ==
    {Bundle("K4", <<Rule(UsOnly, NoText, Url("https://lp.example/us", {}), NoText, NoText, <<>>)>>,
            LandingUrl, "proxy", "", <<>>),
     Bundle("K6", <<[Rule(UsOnly, NoText, NoText, NoText, NoText, <<>>) EXCEPT
                        !.modifications = TRUE]>>,
            LandingUrl, "proxy", "", <<>>)}

\* Pages and a stylesheet, from the US and from Canada.
UpstreamRequests ==
    {Request("", p, {}, <<>>, c, "chromeMac") :
        p \in {<<"/">>, <<"/", "a", ".html">>, <<"/", "lp", "/">>, <<"/", "s", ".css">>},
        c \in {"US", "CA"}}

InitUpstream ==
    /\ kv \in {[k \in {RootKey} |-> b] : b \in UpstreamBundles}
    /\ events = {}
    /\ tasks = {}
    /\ last = [kind |-> "none"]
    /\ idSeq = 0
    /\ destinationUrlCache = {}
    /\ d1Rows = Destinations
    /\ clockMs = 0

\* One request to a proxied campaign, the upstream answering with a page,
\* with an error status, or not at all.
Proxied(req, env) ==
    /\ idSeq + 2 <= MaxIds
    /\ TracedAnswer(req, env,
                    GetKVRule(kv, req.host, req.path, destinationUrlCache, env),
                    MainHandler(req, env, events, idSeq + 1, destinationUrlCache))

NextUpstream ==
    \/ \E req \in UpstreamRequests : \E env \in Envs(req) : Proxied(req, env)
    \/ \E task \in tasks, insertOk \in BOOLEAN : RunTask(task, insertOk)

SpecUpstream == InitUpstream /\ [][NextUpstream]_vars

\* The last request was answered by the proxy or the modifications action.
UpstreamAnswered ==
    /\ last.kind = "request"
    /\ "fetch" \in DOMAIN last
    /\ last.out.branch \in {"proxy", "modifications"}

\* C34: a proxy or modifications action whose upstream fetch returns a
\* status outside 2xx answers with that status, one whose fetch throws
\* answers 500, and neither schedules an impression row.
C34_UpstreamFailureNoImpression ==
    (UpstreamAnswered /\ last.fetch # "ok") =>
        /\ last.fetch = "miss" => last.out.status = 404
        /\ last.fetch = "throw" => last.out.status = 500
        /\ last.out.scheduled = {}

\* A page of the proxied campaign whose upstream answered 404.
C34_Witness ==
    /\ UpstreamAnswered
    /\ last.out.branch = "proxy"
    /\ last.fetch = "miss"
    /\ IsTrackedPagePath(last.req.path)
    /\ last.out.status = 404
    /\ last.out.scheduled = {}

\* A rewritten page whose upstream fetch threw.
C34_WitnessModifications ==
    /\ UpstreamAnswered
    /\ last.out.branch = "modifications"
    /\ last.fetch = "throw"
    /\ IsTrackedPagePath(last.req.path)
    /\ last.out.status = 500
    /\ last.out.scheduled = {}

\* --------------------------------------------------- KV read specification

\* A walk that reads the key with the trailing slash toggled before the
\* exact key.
RECURSIVE WalkReadsToggledFirst(_, _, _)
WalkReadsToggledFirst(store, domain, currentPath) ==
    LET keyWithPath == KeyOf(domain, currentPath)
        toggled == IF currentPath = <<"/">> THEN <<>>
                   ELSE IF EndsWithSlash(currentPath) THEN <<DropLast(keyWithPath)>>
                   ELSE <<keyWithPath \o <<"/">>>>
    IN  IF toggled # <<>> /\ KVHas(store, toggled[1]) THEN toggled
        ELSE IF KVHas(store, keyWithPath) THEN toggled \o <<keyWithPath>>
        ELSE IF currentPath = <<"/">> THEN toggled \o <<keyWithPath>>
        ELSE toggled \o <<keyWithPath>>
                \o WalkReadsToggledFirst(store, domain, ParentPath(currentPath))

\* The keys the walk of getKVRule passes to env.KV.get, in order, from
\* currentPath up to the hit or to the break at "/".
RECURSIVE WalkReads(_, _, _)
WalkReads(store, domain, currentPath) ==
    LET keyWithPath == KeyOf(domain, currentPath)
        toggled == IF currentPath = <<"/">> THEN <<>>
                   ELSE IF EndsWithSlash(currentPath) THEN <<DropLast(keyWithPath)>>
                   ELSE <<keyWithPath \o <<"/">>>>
    IN  IF KVHas(store, keyWithPath) THEN <<keyWithPath>>
        ELSE IF toggled # <<>> /\ KVHas(store, toggled[1]) THEN <<keyWithPath>> \o toggled
        ELSE IF currentPath = <<"/">> THEN <<keyWithPath>>
        ELSE <<keyWithPath>> \o toggled \o WalkReads(store, domain, ParentPath(currentPath))

\* The keys one call of getKVRule reads: those of the walk, then the bare
\* host for the path "/" when the walk found nothing.
GetKVReads(store, domain, path) ==
    LET walked == WalkReads(store, domain, path)
    IN  IF KVHas(store, walked[Len(walked)]) \/ path # <<"/">> THEN walked
        ELSE walked \o << <<domain>> >>

\* The keys the catch-all route reads for one request: getKVRule for the
\* request path and, when it returns null and the Referer is a page of the
\* same host, getKVRule for the Referer's path.
RequestReads(store, domain, path, referrer) ==
    LET first == GetKVReads(store, domain, path)
    IN  IF GetKVKey(store, domain, path) = <<>> /\ referrer # <<>>
        THEN first \o GetKVReads(store, domain, referrer[1])
        ELSE first

\* The paths of a same-host Referer: none, a page below the root.
ReadReferrers == {<<>>, << <<"/", "a", "/", "b">> >>}

InitReads ==
    /\ kv \in UNION {[ks -> {"bundle"}] : ks \in SUBSET ResolveKeys}
    /\ events = {}
    /\ tasks = {}
    /\ last \in {[kind |-> "input", domain |-> d, path |-> p, referrer |-> r] :
                    d \in ResolveHosts, p \in ResolvePaths, r \in ReadReferrers}
    /\ idSeq = 0
    /\ destinationUrlCache = {}
    /\ d1Rows = {}
    /\ clockMs = 0

\* Rule resolution for one request, with the KV reads it makes.
ResolveRequest ==
    /\ last.kind = "input"
    /\ last' = [kind |-> "read", domain |-> last.domain, path |-> last.path,
                referrer |-> last.referrer,
                found |-> GetKVKey(kv, last.domain, last.path),
                reads |-> RequestReads(kv, last.domain, last.path, last.referrer)]
    /\ UNCHANGED <<kv, events, tasks, idSeq, destinationUrlCache, d1Rows, clockMs>>

NextReads == ResolveRequest

SpecReads == InitReads /\ [][NextReads]_vars

\* C35 as stated: rule resolution for one request performs exactly one KV
\* read, whatever the depth of the path and whether or not a bundle is found.
C35_OneKVRead == last.kind = "read" => Len(last.reads) = 1

\* C35 amended: rule resolution reads the exact key {host}{path} first and
\* performs exactly one KV read if and only if a bundle is stored under
\* it; otherwise it reads one key after the other (the key with the
\* trailing slash toggled, then both forms of each parent level, the bare
\* host for "/"), at most two per slash of the path plus one, up to the key
\* it finds, and once more along the Referer's path when nothing was found.
C35_OneReadIffExactKey ==
    last.kind = "read" =>
        /\ last.reads[1] = KeyOf(last.domain, last.path)
        /\ (Len(last.reads) = 1) <=> KVHas(kv, KeyOf(last.domain, last.path))
        /\ last.found # <<>> =>
              /\ last.reads[Len(last.reads)] = last.found[1]
              /\ \A i \in 1..(Len(last.reads) - 1) : ~KVHas(kv, last.reads[i])
              /\ Len(last.reads) <= 2 * Cardinality({i \in 1..Len(last.path) : last.path[i] = "/"}) + 1
        /\ last.found = <<>> => \A i \in 1..Len(last.reads) :
              KVHas(kv, last.reads[i]) => (last.referrer # <<>> /\ i = Len(last.reads))

\* A bundle stored at the root found for a path two levels down after more
\* than one read.
C35_Witness ==
    /\ last.kind = "read"
    /\ last.found = << <<"h", "/">> >>
    /\ last.path = <<"/", "a", "/", "b">>
    /\ Len(last.reads) = 5

\* A bundle stored under the exact key found with one read.
C35_WitnessExact ==
    /\ last.kind = "read"
    /\ Len(Segs(last.path)) = 2
    /\ last.found = <<KeyOf(last.domain, last.path)>>
    /\ Len(last.reads) = 1

\* ------------------------------------------------- CIDR range specification

\* The width of an IPv4 address: `32 - mask`
AddressBits == 32

\* Addresses the specification draws the request's and the range's base
\* from: the spec's own examples and addresses that differ from them in one
\* high, middle or low bit.
CidrAddresses ==
    {<<1, 2, 3, 0>>, <<1, 2, 3, 255>>, <<1, 2, 4, 0>>, <<1, 2, 3, 128>>,
     <<1, 3, 3, 0>>, <<65, 2, 3, 0>>, <<0, 0, 0, 0>>, <<127, 255, 255, 255>>,
     <<10, 0, 0, 1>>}

InitCidr ==
    /\ kv \in {[k \in {} |-> RedirectBundle]}
    /\ events = {}
    /\ tasks = {}
    /\ last \in {[kind |-> "input", ip |-> a, base |-> b, bits |-> n] :
                    a \in CidrAddresses, b \in CidrAddresses, n \in 0..AddressBits}
    /\ idSeq = 0
    /\ destinationUrlCache = {}
    /\ d1Rows = {}
    /\ clockMs = 0

\* isIpInRange(ip, `${base}/${bits}`)
CheckRange ==
    /\ last.kind = "input"
    /\ last' = [kind |-> "checked", ip |-> last.ip, base |-> last.base, bits |-> last.bits,
                inRange |-> IsIpInRange(last.ip, [kind |-> "cidr", base |-> last.base,
                                                  bits |-> last.bits])]
    /\ UNCHANGED <<kv, events, tasks, idSeq, destinationUrlCache, d1Rows, clockMs>>

NextCidr == CheckRange

SpecCidr == InitCidr /\ [][NextCidr]_vars

\* Two addresses agree on their top n bits: on the n \div 8 leading octets
\* and on the n % 8 leading bits of the octet after them.
TopBitsAgree(a, b, n) ==
    /\ \A k \in 1..(n \div 8) : a[k] = b[k]
    /\ n % 8 # 0 =>
          a[n \div 8 + 1] \div 2^(8 - (n % 8)) = b[n \div 8 + 1] \div 2^(8 - (n % 8))

\* C36: for every address and every range a.b.c.d/n with 0 <= n <= 32,
\* isIpInRange is true exactly when the address and the base of the range
\* agree on their top n bits; a /0 range matches every address.
C36_CidrTopBits ==
    last.kind = "checked" =>
        (last.inRange <=> TopBitsAgree(last.ip, last.base, last.bits))

\* For 1 <= n <= 32 isIpInRange compares the top n bits.
C36_CidrTopBitsFromOne ==
    (last.kind = "checked" /\ last.bits >= 1) =>
        (last.inRange <=> TopBitsAgree(last.ip, last.base, last.bits))

\* A /0 range matches the address of its base and no other.
C36_SlashZeroExactOnly ==
    (last.kind = "checked" /\ last.bits = 0) => (last.inRange <=> last.ip = last.base)

\* ------------------------------------- rule without action specification

\* Where the clickUrl of the rules of the specification leads.
PartnerUrl == Url("https://partner.example/go", {})

\* Campaigns whose one rule, for the US, has a clickUrl and no action of its
\* own; the default is a URL or a folder, in every defaultFolderMode.
NoActionBundles ==
    {Bundle("K7", <<Rule([NoFlags EXCEPT !.country = <<{"US"}>>],
                         NoText, NoText, NoText, PartnerUrl, <<>>)>>,
            df, mode, "", <<>>) :
        df \in {LandingUrl, Txt("safe")}, mode \in {"", "redirect", "proxy", "hosted"}}

\* Pages and a stylesheet, from the US and from Canada.
NoActionRequests ==
    {Request("", p, {}, <<>>, c, "chromeMac") :
        p \in {<<"/">>, <<"/", "a", ".html">>, <<"/", "s", ".css">>}, c \in {"US", "CA"}}

InitNoAction ==
    /\ kv \in {[k \in {RootKey} |-> b] : b \in NoActionBundles}
    /\ events = {}
    /\ tasks = {}
    /\ last = [kind |-> "none"]
    /\ idSeq = 0
    /\ destinationUrlCache = {}
    /\ d1Rows = Destinations
    /\ clockMs = 0

\* One request to a campaign whose rule has no action.
ServeNoAction(req, env) ==
    /\ idSeq + 2 <= MaxIds
    /\ TracedAnswer(req, env,
                    GetKVRule(kv, req.host, req.path, destinationUrlCache, env),
                    MainHandler(req, env, events, idSeq + 1, destinationUrlCache))

NextNoAction ==
    \/ \E req \in NoActionRequests : \E env \in Envs(req) : ServeNoAction(req, env)
    \/ \E task \in tasks, insertOk \in BOOLEAN : RunTask(task, insertOk)

SpecNoAction == InitNoAction /\ [][NextNoAction]_vars

\* The answer of the handler to the request had the bundle found for it no
\* rules at all.
AsIfNoRule(req, env) ==
    LET found == GetKVRule(kv, req.host, req.path, destinationUrlCache, env)
    IN  AddMinted(ApplyFound(RequestData(req, idSeq + 1),
                             [found EXCEPT !.rule.rules = <<>>],
                             env, events, idSeq + 2), 1)

\* The rule of the bundle wins the request and has no action of its own.
WinnerHasNoAction(req) ==
    LET rule == kv[RootKey]
        selectedRule == SelectedRule(RequestData(req, idSeq + 1), rule,
                                     ~IsPageLike(req.path), ClickEnv(0))
    IN  /\ selectedRule # <<>>
        /\ ~selectedRule[1].modifications
        /\ selectedRule[1].destinations = <<>>
        /\ ~Truthy(selectedRule[1].proxyUrl)
        /\ ~Truthy(selectedRule[1].redirectUrl)
        /\ ~Truthy(selectedRule[1].folder)

\* The step answers a request that a rule without action wins.
NoActionStep(req, env) == ServeNoAction(req, env) /\ WinnerHasNoAction(req)

\* C37: a request won by a rule that has no primary action is answered as
\* if no rule had matched: the default folder in its defaultFolderMode, with
\* the same response and the same event.
C37_NoActionRuleServedAsDefault ==
    [][\A req \in NoActionRequests : \A env \in Envs(req) :
          NoActionStep(req, env) => last'.out = AsIfNoRule(req, env)]_vars

\* The default of the bundle is typed the same by its defaultFolderMode and
\* by the kind of its defaultFolder alone.
ModeAgreesWithKind ==
    DefaultAction(kv[RootKey]).type
        = IF kv[RootKey].defaultFolder.http THEN "proxy" ELSE "folder"

\* Where defaultFolderMode and the kind of defaultFolder agree, the request
\* is answered as if no rule had matched.
C37_SameWhenModeAgrees ==
    [][\A req \in NoActionRequests : \A env \in Envs(req) :
          (NoActionStep(req, env) /\ ModeAgreesWithKind)
              => last'.out = AsIfNoRule(req, env)]_vars

\* Where they do not agree, the request is answered by the kind of
\* defaultFolder: a URL is proxied, a folder is served.
C37_KindDecidesOtherwise ==
    [][\A req \in NoActionRequests : \A env \in Envs(req) :
          (NoActionStep(req, env) /\ ~ModeAgreesWithKind)
              => /\ last'.out # AsIfNoRule(req, env)
                 /\ last'.out.branch
                       = IF kv[RootKey].defaultFolder.http THEN "proxy" ELSE "folder"]_vars

\* ------------------------------------------ guarded click-out specification

\* Campaigns whose one rule matches every visitor and sends click-outs to
\* its clickUrl or to a destination of its clickDestinations, with and
\* without a deny list for Canada, the default in every mode.
GuardBundles ==
    {Bundle("K5", <<Rule(NoFlags, Txt("lpA"), NoText, NoText, c[1], c[2])>>,
            d[1], d[2], "", blocks) :
        c \in {<<OfferUrl, <<>>>>, <<NoText, <<<<[id |-> "off1", weight |-> 1]>>>>>>},
        d \in BlockDefaults,
        blocks \in {<<>>, <<[NoBlocks EXCEPT !.countries = <<{"ca"}>>]>>}}

\* The bot fields of RequestData: none set, the User-Agent verdict, a
\* verified bot, bot scores below and at 30, threat scores above and at 50.
BotFields ==
    LET none == [isBot |-> FALSE, isVerifiedBot |-> FALSE, botScore |-> <<>>,
                 clientTrustScore |-> <<>>]
    IN  {none, [none EXCEPT !.isBot = TRUE], [none EXCEPT !.isVerifiedBot = TRUE],
         [none EXCEPT !.botScore = <<5>>], [none EXCEPT !.botScore = <<30>>],
         [none EXCEPT !.clientTrustScore = <<80>>],
         [none EXCEPT !.clientTrustScore = <<50>>]}

\* Click-outs and the home page, from the US and from Canada.
GuardRequests ==
    {Request("", p, {}, <<>>, c, "chromeMac") :
        p \in {<<"/", "click">>, <<"/", "click", "/">>, <<"/">>}, c \in {"US", "CA"}}

InitGuard ==
    /\ kv \in {[k \in {RootKey} |-> b] : b \in GuardBundles}
    /\ events = {}
    /\ tasks = {}
    /\ last = [kind |-> "none"]
    /\ idSeq = 0
    /\ destinationUrlCache = {}
    /\ d1Rows = Destinations
    /\ clockMs = 0

\* applyKVRule on the bundle of the request, for a RequestData whose bot
\* fields the caller has set.
Guarded(req, bot, env) ==
    LET data == [RequestData(req, idSeq + 1) EXCEPT
                    !.isBot = bot.isBot, !.isVerifiedBot = bot.isVerifiedBot,
                    !.botScore = bot.botScore,
                    !.clientTrustScore = bot.clientTrustScore]
        found == GetKVRule(kv, req.host, req.path, destinationUrlCache, env)
        out == AddMinted(ApplyFound(data, found, env, events, idSeq + 2), 1)
    IN  /\ idSeq = 0
        /\ idSeq + out.minted <= MaxIds
        /\ last' = [kind |-> "request", route |-> "main", req |-> req,
                    dbOk |-> env.dbOk, d1Ok |-> env.d1Ok, fetch |-> env.fetch,
                    rule |-> found.rule, data |-> data, out |-> out]
        /\ tasks' = tasks \cup out.scheduled
        /\ idSeq' = idSeq + out.minted
        /\ destinationUrlCache' = out.cache
        /\ UNCHANGED <<kv, events, d1Rows, clockMs>>

NextGuard ==
    \/ \E req \in GuardRequests, bot \in BotFields : \E env \in Envs(req) :
          Guarded(req, bot, env)
    \/ \E task \in tasks, insertOk \in BOOLEAN : RunTask(task, insertOk)

SpecGuard == InitGuard /\ [][NextGuard]_vars

\* The last request was a click-out of a visitor the bundle's deny list
\* matches.
BlockedClick ==
    /\ last.kind = "request"
    /\ IsClickOutPath(last.req.path)
    /\ last.rule.blocks # <<>>
    /\ MatchesBlockSet(last.data, last.rule.blocks[1])

\* The last request was a click-out with bot fields that classify it as a
\* bot.
BotClick ==
    /\ last.kind = "request"
    /\ IsClickOutPath(last.req.path)
    /\ \/ last.data.isBot
       \/ last.data.isVerifiedBot
       \/ last.data.botScore \in {<<5>>}
       \/ last.data.clientTrustScore \in {<<80>>}

\* The URLs a click-out of the bundles can lead to.
ClickTargets == {OfferUrl.body} \cup {d.url.body : d \in Destinations}

\* C38: a request to /click that the BlockSet matches or that is classified
\* as a bot is answered by the bot or block branch, before the click-out:
\* it is not redirected to a click destination and schedules no click
\* event.
C38_ChecksBeforeClickOut ==
    (BlockedClick \/ BotClick) =>
        /\ last.out.branch \in {"bot", "block"}
        /\ last.out.kind = "redirect" => last.out.location.body \notin ClickTargets
        /\ last.out.scheduled = {}

\* A click-out of a visitor from a denied country on a campaign with a
\* clickUrl, answered by the block branch.
C38_Witness ==
    /\ BlockedClick /\ ~BotClick
    /\ Truthy(last.rule.rules[1].clickUrl)
    /\ last.out.branch = "block"
    /\ last.out.scheduled = {}

\* A click-out with a bot score below 30 on a campaign with
\* clickDestinations, answered by the bot branch.
C38_WitnessBot ==
    /\ BotClick /\ ~BlockedClick
    /\ last.data.botScore = <<5>>
    /\ last.rule.rules[1].clickDestinations # <<>>
    /\ last.out.branch = "bot"
    /\ last.out.scheduled = {}

\* A click-out of a visitor that is neither denied nor a bot is redirected
\* to a click destination when the destination resolves.
C38_CleanClickRedirected ==
    /\ last.kind = "request"
    /\ IsClickOutPath(last.req.path)
    /\ ~BlockedClick /\ ~BotClick
    /\ last.out.kind = "redirect"
    /\ last.out.location.body \in ClickTargets
    /\ \E t \in last.out.scheduled : t.row.isClick

\* ------------------------------------------------ claims on conversions

\* The stored conversion rows.
Conversions == {r \in events : r.isConversion}

\* The stored click row the conversion names, with the conversion's session
\* and campaign.
ClickOf(conv) ==
    {c \in events : /\ c.isClick
                    /\ c.eventId = conv.clickId
                    /\ c.sessionId = conv.sessionId
                    /\ c.campaignId = conv.campaignId}

ConversionVisits ==
    {Request("", <<"/">>, {}, <<>>, "US", ua) : ua \in {"chromeMac", "safariIphone"}}

InitConversion ==
    /\ kv \in {[k \in {RootKey} |-> RedirectBundle]}
    /\ events = {}
    /\ tasks = {}
    /\ last = [kind |-> "none"]
    /\ idSeq = 0
    /\ destinationUrlCache = {}
    /\ d1Rows = Destinations
    /\ clockMs = 0

NextConversion ==
    \/ \E req \in ConversionVisits : \E env \in Envs(req) : Dispatch(req, env)
    \/ \E req \in PostbackRequests :
          \E dbOk \in IF req.clickId = NoId THEN {TRUE} ELSE BOOLEAN :
             \E iterable \in IF dbOk /\ req.clickId # NoId THEN BOOLEAN ELSE {TRUE} :
                Postback(req, dbOk, iterable)
    \/ \E task \in tasks, insertOk \in BOOLEAN : RunTask(task, insertOk)

SpecConversion == InitConversion /\ [][NextConversion]_vars

\* The conversion writes handed to waitUntil that have not run yet.
PendingConversions == {t \in tasks : t.op = "storeConversion"}

====
